---- MODULE Spec2Model ----
(***************************************************************************)
(* Laptop data collection system: the persistence service                  *)
(* (database/db_service.py), the record model (database/models.py), the    *)
(* crawl pass (core/spider_manager.py), the page fetch                     *)
(* (spiders/base_spider.py), the rate limiter (core/rate_limiter.py), the  *)
(* scheduler and its shutdown (core/scheduler.py, main.py) and the         *)
(* functions of the extraction (spiders/amazon_spider.py,                  *)
(* utils/helpers.py, core/data_cleaner.py).                                *)
(*                                                                         *)
(* Units.  Prices are integers in hundredths of a currency unit and        *)
(* ratings are integers in tenths, so that round(v, 2) and round(v, 1) of  *)
(* the validators are exact on every value of the model.  Time is a        *)
(* counter of clock readings of datetime.utcnow(); time.time() is counted  *)
(* in ticks.  Texts are sequences of one-character strings.                *)
(***************************************************************************)
EXTENDS Integers, Sequences, FiniteSets, TLC

VARIABLES
    now,          \* the reading datetime.utcnow() returns
    store,        \* the collection: product_id -> document
    laptop,       \* the Laptop object in hand (None, or Some(l))
    pageIn,       \* history: the page data last handed to the Laptop constructor
    resubmitted,  \* history: the last acknowledged insert_laptop of the object in
                  \* hand found the result of an earlier insert of that record
    restocked,    \* history: the last acknowledged insert_laptop wrote over a
                  \* document that was marked unavailable
    fpc,          \* get_page_content: "idle", "loop" (in the while loop), "done"
    retry_count,  \* get_page_content: its local retry_count
    responses,    \* history: what each request of the call received
    fresult,      \* get_page_content: "none", "body" (returned), "raised"
    slept,        \* get_page_content: seconds of asyncio.sleep in the call
    pc,           \* run_spiders: "start", "initial", "paginate", "loop",
                  \* "extracted", "done", "raised", "cancelled"
    pageNo,       \* _process_pagination: its loop variable page
    all_links,    \* _process_pagination: its local all_links
    product_links,\* run_spiders: the link list of the pass
    index,        \* run_spiders: links of product_links already left behind
    attempted,    \* history: the links whose processing was begun, in order
    inserted,     \* history: the product_id of each insert_laptop call of the pass
    repeated,     \* history: _process_pagination collected some link twice
    clock,        \* RateLimiter: the reading time.time() returns, in ticks
    last_request_time, \* RateLimiter: domain -> reading stored by acquire
    acq,          \* RateLimiter: per caller, where its acquire call stands
    returned,     \* history: per domain, the readings at which the last two
                  \* acquire calls returned
    start_pc,     \* DataCollectionSystem.start: "init", "waiting" (line 49),
                  \* "joining" (line 50), "stopped" (cleanup is over)
    shutdown_event, \* DataCollectionSystem._shutdown_event is set
    running,      \* Scheduler.running
    run_pc,       \* Scheduler._task: "none", "created", "test" (the while
                  \* condition), "pass" (in run_spiders), "interval", "backoff"
                  \* (the two sleeps), "returned", "cancelled"
    passes,       \* history: crawl passes started, counted up to MaxCount
    failures,     \* history: crawl passes that raised, counted up to MaxCount
    signals,      \* history: shutdown signals handled, counted up to MaxCount
    swept,        \* history: cleanup_old_records ran over a record that its
                  \* filter selects
    fn,           \* a call of a function of the extraction: its name ("none"
                  \* before the call)
    arg,          \* the argument of the call
    ret           \* what the call returned or raised (Pending before the call)

dbVars == <<now, store, laptop, pageIn, resubmitted, restocked>>
fetchVars == <<fpc, retry_count, responses, fresult, slept>>
crawlVars == <<pc, pageNo, all_links, product_links, index, attempted,
              inserted, repeated>>
limiterVars == <<clock, last_request_time, acq, returned>>
schedVars == <<start_pc, shutdown_event, running, run_pc, passes, failures, signals>>
callVars == <<fn, arg, ret>>
coreVars == <<limiterVars, schedVars, callVars, swept>>
vars == <<dbVars, fetchVars, crawlVars, coreVars>>

\* ------------------------------------------------------------------ bounds
\* Largest clock reading; the clock stops advancing there.
MaxTime == 2

\* Largest reading of time.time(), and the clock ticks in one second.
MaxClock == 4
TicksPerSecond == 2

\* The history counters of the scheduler stop counting here.
MaxCount == 3

\* ------------------------------------------------------------------ inputs
\* The coroutines that call RateLimiter.acquire and the domains they name.
Callers == {1, 2}
Domains == {"amazon.in", "flipkart.com"}
IdleCall == [pc |-> "idle", domain |-> "", wake |-> 0]

\* Python's None / an Optional value: the empty sequence, or <<v>>.
None == << >>
Some(v) == <<v>>

\* Specification objects built by _create_laptop_specs: a full extraction and
\* a weaker one that left ram.type empty.
SpecInputs ==
    { [ram |-> [size |-> "16GB", type |-> t, speed |-> ""], os |-> "Windows 11"]
        : t \in {"", "DDR4"} }

FullSpecs == [ram |-> [size |-> "16GB", type |-> "DDR4", speed |-> ""], os |-> "Windows 11"]

\* What extract_product_data hands to the Laptop constructor: pid is
\* url.split('/dp/')[-1].split('/')[0], cur the current price, orig the result
\* of _extract_original_price (None when no strike-through price), rating
\* float(rating_text) in tenths.
PageOf(pid, cur, orig, rating, specs) ==
    [pid |-> pid, cur |-> cur, orig |-> orig, rating |-> rating, specs |-> specs]

\* Well-formed pages of two products at two prices.
GoodPages ==
    { PageOf(pid, cur, None, 45, specs) :
        pid \in { <<"A">>, <<"B">> }, cur \in { 4500000, 5000000 },
        specs \in SpecInputs }

\* Pages with one field off: an unstripped id, a blank id, an empty id, a
\* negative price, a zero and a negative strike-through price, a rating below
\* and above the range.
OddPages ==
    { PageOf(<<" ", "A">>, 4500000, None, 45, FullSpecs),
      PageOf(<<" ">>, 4500000, None, 45, FullSpecs),
      PageOf(<< >>, 4500000, None, 45, FullSpecs),
      PageOf(<<"A">>, -500, None, 45, FullSpecs),
      PageOf(<<"A">>, 4500000, Some(0), 45, FullSpecs),
      PageOf(<<"A">>, 4500000, Some(-500), 45, FullSpecs),
      PageOf(<<"A">>, 4500000, None, -10, FullSpecs),
      PageOf(<<"A">>, 4500000, None, 51, FullSpecs) }

PageInputs == GoodPages \cup OddPages

\* ------------------------------------------------------------ outcomes
\* What a call leaves: a value, or an exception that escapes it.
Ok(v) == [exc |-> "none", value |-> <<v>>]
Raise(x) == [exc |-> x, value |-> << >>]
Pending == [exc |-> "pending", value |-> << >>]
NoArg == [kind |-> "none"]

\* try: body / except handled: fallback
Catch(outcome, handled, fallback) ==
    IF outcome.exc \in handled THEN fallback ELSE outcome

\* ----------------------------------------------------------- models.py
Whitespace == { " " }

RECURSIVE LStrip(_)
LStrip(s) ==
    IF s # <<>> /\ Head(s) \in Whitespace THEN LStrip(Tail(s)) ELSE s

RECURSIVE RStrip(_)
RStrip(s) ==
    IF s # <<>> /\ s[Len(s)] \in Whitespace
    THEN RStrip(SubSeq(s, 1, Len(s) - 1))
    ELSE s

\* str.strip()
Strip(s) == RStrip(LStrip(s))

\* validate_price without its comparison: nothing is rejected.
PriceRejected_Never(v) == FALSE

\* Laptop.validate_price: TRUE when the validator raises.
PriceRejected(v) == v < 0

\* Laptop.validate_price: the value kept (round(v, 2), exact on hundredths).
validate_price(v) == v

\* Laptop.validate_rating: TRUE when the validator raises.
RatingRejected(v) == ~(0 <= v /\ v <= 50)

\* Laptop.validate_rating: the value kept (round(v, 1), exact on tenths).
validate_rating(v) == v

\* Laptop.validate_product_id: TRUE when the validator raises.
ProductIdRejected(v) == Strip(v) = <<>>

\* Laptop.validate_product_id: the value kept.
validate_product_id(v) == Strip(v)

\* Laptop(...) as called by extract_product_data: the validated object, with
\* in_stock, first_seen and price_history at their defaults.
Laptop(pid, cur, orig, rating, specs, t) ==
    [ product_id     |-> validate_product_id(pid),
      source         |-> "Amazon",
      current_price  |-> validate_price(cur),
      original_price |-> validate_price(orig),
      average_rating |-> validate_rating(rating),
      specifications |-> specs,
      in_stock       |-> TRUE,
      last_updated   |-> t,
      first_seen     |-> t,
      price_history  |-> <<>> ]

\* TRUE when constructing the Laptop raises a validation error.
LaptopRejected(pid, cur, orig, rating) ==
    \/ ProductIdRejected(pid)
    \/ PriceRejected(cur)
    \/ PriceRejected(orig)
    \/ RatingRejected(rating)

\* original_price = self._extract_original_price(soup) or current_price
OriginalOr(orig, cur) == IF orig = None \/ orig = Some(0) THEN cur ELSE orig[1]

\* The ids a stored document can have.
ProductIds ==
    { validate_product_id(pg.pid) : pg \in { q \in PageInputs : ~ProductIdRejected(q.pid) } }

\* ----------------------------------------------------------- db_service.py
\* An upsert whose $set does not exclude first_seen.
Upsert_SetsFirstSeen(docs, l, t) ==
    LET p == l.product_id IN
    IF p \in DOMAIN docs
    THEN [docs EXCEPT ![p] = l]
    ELSE (p :> [l EXCEPT !.first_seen = t]) @@ docs

\* An upsert that pushes a price_history entry on every call.
Upsert_PushesAlways(docs, l, t) ==
    LET p == l.product_id
        entry == [price |-> l.current_price, date |-> t, source |-> l.source]
    IN
    IF p \in DOMAIN docs
    THEN [docs EXCEPT ![p] = [l EXCEPT !.first_seen = docs[p].first_seen,
                                       !.price_history = Append(docs[p].price_history, entry)]]
    ELSE (p :> [l EXCEPT !.first_seen = t, !.price_history = <<entry>>]) @@ docs

\* An upsert whose $set leaves in_stock out: the stored flag stays.
Upsert_KeepsStock(docs, l, t) ==
    LET p == l.product_id IN
    IF p \in DOMAIN docs
    THEN [docs EXCEPT ![p] = [l EXCEPT !.first_seen = docs[p].first_seen,
                                       !.in_stock = docs[p].in_stock]]
    ELSE (p :> [l EXCEPT !.first_seen = t]) @@ docs

\* The document update_one(..., upsert=True) leaves for laptop l at time t:
\* $set of every field but first_seen, $setOnInsert of first_seen.
Upsert(docs, l, t) ==
    LET p == l.product_id IN
    IF p \in DOMAIN docs
    THEN [docs EXCEPT ![p] = [l EXCEPT !.first_seen = docs[p].first_seen]]
    ELSE (p :> [l EXCEPT !.first_seen = t]) @@ docs

\* A mark_unavailable that does not stamp last_updated.
SetUnavailable_NoStamp(docs, p, t) ==
    IF p \in DOMAIN docs
    THEN [docs EXCEPT ![p] = [@ EXCEPT !.in_stock = FALSE]]
    ELSE docs

\* update_one of mark_unavailable: no upsert, so an unknown id matches nothing.
SetUnavailable(docs, p, t) ==
    IF p \in DOMAIN docs
    THEN [docs EXCEPT ![p] = [@ EXCEPT !.in_stock = FALSE, !.last_updated = t]]
    ELSE docs

\* The days arguments of cleanup_old_records, in clock readings.
CleanupDays == { 0, 1 }

\* The filter of delete_many: out of stock and last updated before the cutoff
\* datetime.utcnow() - timedelta(days=days).
Expired(doc, t, days) == ~doc.in_stock /\ doc.last_updated < t - days

\* A cleanup that deletes every record that is out of stock, whatever its age.
DeleteOld_WhateverAge(docs, t, days) ==
    [p \in { q \in DOMAIN docs : docs[q].in_stock } |-> docs[p]]

\* The collection cleanup_old_records(days) leaves at time t: the NameError of
\* the undefined timedelta is raised before delete_many is reached.
DeleteOld(docs, t, days) == docs

\* get_laptop: the document of p, None when there is none.
get_laptop(docs, p) == IF p \in DOMAIN docs THEN Some(docs[p]) ELSE None

\* What get_price_history returns: a list, or null.
AsList(items) == [null |-> FALSE, items |-> items]
Null == [null |-> TRUE, items |-> << >>]

\* get_price_history: $match on product_id, then $project of $map over the
\* field "price_updates", keeping price and date of each element.  $map of a
\* field the document does not have is null; no matching document gives [].
get_price_history(docs, p) ==
    IF p \notin DOMAIN docs THEN AsList(<< >>)
    ELSE IF "price_updates" \notin DOMAIN docs[p] THEN Null
    ELSE AsList([i \in 1..Len(docs[p].price_updates) |->
                   [price |-> docs[p].price_updates[i].price,
                    date |-> docs[p].price_updates[i].date]])

\* The fields insert_laptop writes from the extraction itself: every field of
\* the object but the two timestamps and the history.
ObservedFields(l) == DOMAIN l \ { "first_seen", "last_updated", "price_history" }

\* The stored document of l.product_id is what an insert of this record left.
HoldsRecord(docs, l) ==
    /\ l.product_id \in DOMAIN docs
    /\ \A f \in ObservedFields(l) : docs[l.product_id][f] = l[f]

\* The collection holds a document of l's product that is marked unavailable.
Restocks(docs, l) ==
    /\ l.product_id \in DOMAIN docs
    /\ ~docs[l.product_id].in_stock

\* ------------------------------------------------------------------ state
\* Every variable but arg, as construction leaves it.
Constructed ==
    /\ now = 0
    /\ store = << >>
    /\ laptop = None
    /\ pageIn = None
    /\ resubmitted = FALSE
    /\ restocked = FALSE
    /\ fpc = "idle"
    /\ retry_count = 0
    /\ responses = << >>
    /\ fresult = "none"
    /\ slept = 0
    /\ pc = "start"
    /\ pageNo = 0
    /\ all_links = << >>
    /\ product_links = << >>
    /\ index = 0
    /\ attempted = << >>
    /\ inserted = << >>
    /\ repeated = FALSE
    /\ clock = 0
    /\ last_request_time = << >>
    /\ acq = [c \in Callers |-> IdleCall]
    /\ returned = [d \in Domains |-> << >>]
    /\ start_pc = "init"
    /\ shutdown_event = FALSE
    /\ running = FALSE
    /\ run_pc = "none"
    /\ passes = 0
    /\ failures = 0
    /\ signals = 0
    /\ swept = FALSE
    /\ fn = "none"
    /\ ret = Pending

Init ==
    /\ Constructed
    /\ arg = NoArg

\* datetime.utcnow() reads a later value.
Tick ==
    /\ now < MaxTime
    /\ now' = now + 1
    /\ UNCHANGED <<store, laptop, pageIn, resubmitted, restocked>>
    /\ UNCHANGED <<fetchVars, crawlVars, coreVars>>

\* extract_product_data, lines 60-80: build the Laptop; a validation error is
\* caught and the result is None.
BuildLaptop ==
    \E page \in PageInputs :
        LET orig == OriginalOr(page.orig, page.cur) IN
        /\ laptop' = IF LaptopRejected(page.pid, page.cur, orig, page.rating)
                     THEN None
                     ELSE Some(Laptop(page.pid, page.cur, orig, page.rating,
                                      page.specs, now))
        /\ pageIn' = Some(page)
        /\ resubmitted' = FALSE
        /\ restocked' = FALSE
        /\ UNCHANGED <<now, store>>
        /\ UNCHANGED <<fetchVars, crawlVars, coreVars>>

\* insert_laptop: the upsert is acknowledged.
InsertLaptopOk ==
    /\ laptop # None
    /\ store' = Upsert(store, laptop[1], now)
    /\ resubmitted' = HoldsRecord(store, laptop[1])
    /\ restocked' = Restocks(store, laptop[1])
    /\ UNCHANGED <<now, laptop, pageIn>>
    /\ UNCHANGED <<fetchVars, crawlVars, coreVars>>

\* insert_laptop: the driver raises; logged, returns False, nothing stored.
InsertLaptopFail ==
    /\ laptop # None
    /\ UNCHANGED <<now, store, laptop, pageIn, resubmitted, restocked>>
    /\ UNCHANGED <<fetchVars, crawlVars, coreVars>>

\* mark_unavailable(p): the update is applied.
MarkUnavailableOk(p) ==
    /\ store' = SetUnavailable(store, p, now)
    /\ UNCHANGED <<now, laptop, pageIn, resubmitted, restocked>>
    /\ UNCHANGED <<fetchVars, crawlVars, coreVars>>

\* mark_unavailable(p): the driver raises; logged, returns False.
MarkUnavailableFail(p) ==
    /\ UNCHANGED <<now, store, laptop, pageIn, resubmitted, restocked>>
    /\ UNCHANGED <<fetchVars, crawlVars, coreVars>>

mark_unavailable == \E p \in ProductIds : MarkUnavailableOk(p) \/ MarkUnavailableFail(p)

\* cleanup_old_records(days): timedelta is not imported in db_service.py, so
\* the cutoff computation raises NameError, which the handler catches: the
\* call returns 0 and deletes nothing.
cleanup_old_records ==
    \E days \in CleanupDays :
        /\ store' = DeleteOld(store, now, days)
        /\ swept' = (swept \/ \E p \in DOMAIN store : Expired(store[p], now, days))
        /\ UNCHANGED <<now, laptop, pageIn, resubmitted, restocked>>
        /\ UNCHANGED <<fetchVars, crawlVars, limiterVars, schedVars, callVars>>

\* get_laptop(p): find_one reads the collection; the call returns
\* get_laptop(store, p).
GetLaptop ==
    \E p \in ProductIds :
        /\ UNCHANGED <<dbVars, fetchVars, crawlVars, coreVars>>

\* get_price_history(p): the aggregation reads the collection; the call
\* returns get_price_history(store, p).
GetPriceHistory ==
    \E p \in ProductIds :
        /\ UNCHANGED <<dbVars, fetchVars, crawlVars, coreVars>>

Next ==
    \/ Tick
    \/ BuildLaptop
    \/ InsertLaptopOk
    \/ InsertLaptopFail
    \/ mark_unavailable
    \/ cleanup_old_records
    \/ GetLaptop
    \/ GetPriceHistory

Spec == Init /\ [][Next]_vars

\* ===================================================================
\* BaseSpider.get_page_content (specification FetchSpec)
\* ===================================================================

\* max_retries of get_page_content.
max_retries == 3

\* What one session.get of the call can meet: a status code, a timeout
\* (asyncio.TimeoutError), or another exception of the request or of reading
\* the body.
RateLimitedStatus == { "403", "429" }

\* A loop condition that admits one attempt too many.
CanRetry_OffByOne(rc) == rc <= max_retries

\* while retry_count < max_retries
CanRetry(rc) == rc < max_retries

\* The tail of a failed iteration: retry_count += 1; sleep(retry_count * 2).
\* extra is what the iteration slept before (the rate-limit backoff).
FailedAttempt(r, extra) ==
    /\ CanRetry(retry_count)
    /\ responses' = Append(responses, r)
    /\ retry_count' = retry_count + 1
    /\ slept' = slept + extra + (retry_count + 1) * 2
    /\ UNCHANGED <<fpc, fresult>>
    /\ UNCHANGED <<dbVars, crawlVars, coreVars>>

\* A caller enters get_page_content(url).
FetchCall ==
    /\ fpc = "idle"
    /\ fpc' = "loop"
    /\ retry_count' = 0
    /\ responses' = << >>
    /\ fresult' = "none"
    /\ slept' = 0
    /\ UNCHANGED <<dbVars, crawlVars, coreVars>>

\* status 200: return await response.text()
FetchOk ==
    /\ fpc = "loop"
    /\ CanRetry(retry_count)
    /\ responses' = Append(responses, "200")
    /\ fpc' = "done"
    /\ fresult' = "body"
    /\ UNCHANGED <<retry_count, slept>>
    /\ UNCHANGED <<dbVars, crawlVars, coreVars>>

\* status 404: raise ValueError, caught by the except Exception of the loop.
FetchNotFound ==
    /\ fpc = "loop"
    /\ FailedAttempt("404", 0)

\* status 403 or 429: sleep(5 * (retry_count + 1)).
FetchRateLimited ==
    /\ fpc = "loop"
    /\ \E r \in RateLimitedStatus : FailedAttempt(r, 5 * (retry_count + 1))

\* any other status: raise ValueError, caught by the except Exception.
FetchBadStatus ==
    /\ fpc = "loop"
    /\ FailedAttempt("500", 0)

\* asyncio.TimeoutError
FetchTimeout ==
    /\ fpc = "loop"
    /\ FailedAttempt("timeout", 0)

\* any other exception of the request or of response.text()
FetchError ==
    /\ fpc = "loop"
    /\ FailedAttempt("error", 0)

\* The loop ends with retry_count = max_retries: raise Exception.
FetchExhausted ==
    /\ fpc = "loop"
    /\ ~CanRetry(retry_count)
    /\ fpc' = "done"
    /\ fresult' = "raised"
    /\ UNCHANGED <<retry_count, responses, slept>>
    /\ UNCHANGED <<dbVars, crawlVars, coreVars>>

\* The caller takes the result; the spider is free for the next call.
FetchReturn ==
    /\ fpc = "done"
    /\ fpc' = "idle"
    /\ UNCHANGED <<retry_count, responses, fresult, slept>>
    /\ UNCHANGED <<dbVars, crawlVars, coreVars>>

FetchNext ==
    \/ FetchCall
    \/ FetchOk
    \/ FetchNotFound
    \/ FetchRateLimited
    \/ FetchBadStatus
    \/ FetchTimeout
    \/ FetchError
    \/ FetchExhausted
    \/ FetchReturn

FetchSpec == Init /\ [][FetchNext]_vars

\* C9: once a request of the call received 404, the call issues no further
\* request and ends by raising.
C9_NotFoundAbandons ==
    \A i \in 1..Len(responses) :
        responses[i] = "404" =>
            /\ i = Len(responses)
            /\ fpc # "loop" => fresult = "raised"

\* The call's first i-1 responses are failures.
NoOkBefore(i) == \A j \in 1..(i - 1) : responses[j] # "200"

\* C10: one call issues at most 3 requests; every iteration either returns
\* or uses up one of the 3 retries, so the loop ends; the call returns exactly
\* when a request received 200 (the first one that did, which is the last
\* request issued) and otherwise raises after the third failed attempt.
C10_BoundedRetries ==
    /\ Len(responses) <= 3
    /\ retry_count <= 3
    /\ fpc = "loop" => (retry_count = Len(responses) /\ NoOkBefore(Len(responses) + 1))
    /\ fresult = "body" =>
           /\ responses # << >>
           /\ responses[Len(responses)] = "200"
           /\ NoOkBefore(Len(responses))
    /\ fresult = "raised" =>
           /\ Len(responses) = 3
           /\ NoOkBefore(4)
    /\ (fpc = "loop" /\ Len(responses) = 3) => ENABLED FetchExhausted
    /\ (fpc = "loop" /\ Len(responses) < 3) => ENABLED FetchOk

\* C10 witness: a call that met a rate limit, a timeout and an error status
\* has raised after its third attempt.
C10_Witness ==
    /\ fpc = "done"
    /\ fresult = "raised"
    /\ Len(responses) = 3
    /\ responses[1] \in RateLimitedStatus
    /\ responses[2] = "timeout"
    /\ responses[3] = "500"
    /\ slept = 5 + 2 + 4 + 6

\* ===================================================================
\* SpiderManager.run_spiders: one crawl pass (specification PassSpec)
\* ===================================================================

\* links[:10] of extract_product_links.
LinkCap == 10

\* max_pages of _process_pagination.
max_pages == 5

\* The data-asin attributes of the grid items of a listing page.  A link is
\* "https://www.amazon.in/dp/" + asin and is written as its asin.
ListingInputs ==
    { << >>, << <<"A">> >>, << <<"B">>, <<"A">> >>, << <<" ">>, <<"B">> >> }

\* extract_product_links: items with a non-blank asin, at most LinkCap.
ExtractLinks(items) ==
    LET kept == SelectSeq(items, LAMBDA asin : asin # << >> /\ Strip(asin) # << >>)
    IN  SubSeq(kept, 1, IF Len(kept) < LinkCap THEN Len(kept) ELSE LinkCap)

\* The elements of a sequence.
Range(seq) == { seq[i] : i \in 1..Len(seq) }

\* A return all_links that leaves the repeats in.
ListOfSet_KeepsRepeats(seq) == { seq }

\* list(set(all_links)): the distinct links, in an order the hash decides.
ListOfSet(seq) ==
    LET S == Range(seq) IN
    { l \in [1..Cardinality(S) -> S] : \A i, j \in 1..Cardinality(S) : l[i] = l[j] => i = j }

\* A handler that lets the exception of one link end the pass.
LinkErrorHandler_Abort(i) == [pc |-> "raised", index |-> i]

\* except Exception of the product loop: log, continue with the next link.
LinkErrorHandler(i) == [pc |-> "loop", index |-> i + 1]

\* async with aiohttp.ClientSession(); spider = AmazonSpider(...)
PassStart ==
    /\ pc = "start"
    /\ pc' = "initial"
    /\ UNCHANGED <<pageNo, all_links, product_links, index, attempted>>
    /\ UNCHANGED <<dbVars, fetchVars, coreVars>>
    /\ UNCHANGED <<inserted, repeated>>

\* An exception before the product loop: the outer except logs and re-raises.
PassRaises ==
    /\ pc = "initial"
    /\ pc' = "raised"
    /\ UNCHANGED <<pageNo, all_links, product_links, index, attempted>>
    /\ UNCHANGED <<dbVars, fetchVars, coreVars>>
    /\ UNCHANGED <<inserted, repeated>>

\* initial_links = extract_product_links(base_url): only its length is logged.
\* Then _process_pagination is entered.
InitialLinks ==
    /\ pc = "initial"
    /\ pc' = "paginate"
    /\ pageNo' = 1
    /\ all_links' = << >>
    /\ UNCHANGED <<product_links, index, attempted>>
    /\ UNCHANGED <<dbVars, fetchVars, coreVars>>
    /\ UNCHANGED <<inserted, repeated>>

\* _process_pagination returns list(set(all_links)); the product loop starts.
ReturnLinks(links) ==
    /\ product_links' \in ListOfSet(links)
    /\ pc' = "loop"
    /\ index' = 0
    /\ pageNo' = 0
    /\ all_links' = << >>
    /\ UNCHANGED attempted
    /\ UNCHANGED <<dbVars, fetchVars, coreVars>>
    /\ repeated' = (Len(links) # Cardinality(Range(links)))
    /\ UNCHANGED inserted

\* One listing page with links: all_links.extend(links).
PaginatePage ==
    /\ pc = "paginate"
    /\ pageNo <= max_pages
    /\ \E listing \in ListingInputs :
        /\ ExtractLinks(listing) # << >>
        /\ all_links' = all_links \o ExtractLinks(listing)
    /\ pageNo' = pageNo + 1
    /\ UNCHANGED <<pc, product_links, index, attempted>>
    /\ UNCHANGED <<dbVars, fetchVars, coreVars>>
    /\ UNCHANGED <<inserted, repeated>>

\* A listing page without links (or whose fetch failed, which
\* extract_product_links turns into []): break.
PaginateBreak ==
    /\ pc = "paginate"
    /\ pageNo <= max_pages
    /\ \E listing \in ListingInputs : ExtractLinks(listing) = << >>
    /\ ReturnLinks(all_links)

\* range(1, max_pages + 1) is used up.
PaginateEnd ==
    /\ pc = "paginate"
    /\ pageNo > max_pages
    /\ ReturnLinks(all_links)

\* product = extract_product_data(link) on a page with a title.
ExtractProduct ==
    /\ pc = "loop"
    /\ index < Len(product_links)
    /\ \E page \in PageInputs :
        LET orig == OriginalOr(page.orig, page.cur) IN
        /\ page.pid = product_links[index + 1]
        /\ laptop' = IF LaptopRejected(page.pid, page.cur, orig, page.rating)
                     THEN None
                     ELSE Some(Laptop(page.pid, page.cur, orig, page.rating,
                                      page.specs, now))
        /\ pageIn' = Some(page)
    /\ resubmitted' = FALSE
    /\ restocked' = FALSE
    /\ attempted' = Append(attempted, product_links[index + 1])
    /\ pc' = "extracted"
    /\ UNCHANGED <<now, store, pageNo, all_links, product_links, index>>
    /\ UNCHANGED <<fetchVars, coreVars>>
    /\ UNCHANGED <<inserted, repeated>>

\* extract_product_data returns None: the fetch failed or the title is absent.
ExtractNothing ==
    /\ pc = "loop"
    /\ index < Len(product_links)
    /\ laptop' = None
    /\ resubmitted' = FALSE
    /\ restocked' = FALSE
    /\ attempted' = Append(attempted, product_links[index + 1])
    /\ pc' = "extracted"
    /\ UNCHANGED <<now, store, pageIn, pageNo, all_links, product_links, index>>
    /\ UNCHANGED <<fetchVars, coreVars>>
    /\ UNCHANGED <<inserted, repeated>>

\* if product: insert_laptop(product), acknowledged.
SaveProductOk ==
    /\ pc = "extracted"
    /\ laptop # None
    /\ store' = Upsert(store, laptop[1], now)
    /\ resubmitted' = HoldsRecord(store, laptop[1])
    /\ restocked' = Restocks(store, laptop[1])
    /\ index' = index + 1
    /\ pc' = "loop"
    /\ UNCHANGED <<now, laptop, pageIn, pageNo, all_links, product_links, attempted>>
    /\ UNCHANGED <<fetchVars, coreVars>>
    /\ inserted' = Append(inserted, laptop[1].product_id)
    /\ UNCHANGED repeated

\* if product: insert_laptop(product) returns False.
SaveProductFail ==
    /\ pc = "extracted"
    /\ laptop # None
    /\ index' = index + 1
    /\ pc' = "loop"
    /\ UNCHANGED <<dbVars, pageNo, all_links, product_links, attempted>>
    /\ UNCHANGED <<fetchVars, coreVars>>
    /\ inserted' = Append(inserted, laptop[1].product_id)
    /\ UNCHANGED repeated

\* else: "No data extracted".
SkipProduct ==
    /\ pc = "extracted"
    /\ laptop = None
    /\ index' = index + 1
    /\ pc' = "loop"
    /\ UNCHANGED <<dbVars, pageNo, all_links, product_links, attempted>>
    /\ UNCHANGED <<fetchVars, coreVars>>
    /\ UNCHANGED <<inserted, repeated>>

\* An exception escapes the body of the loop before extract_product_data
\* returned: the handler of the loop takes it.
LinkRaisesEarly ==
    /\ pc = "loop"
    /\ index < Len(product_links)
    /\ attempted' = Append(attempted, product_links[index + 1])
    /\ pc' = LinkErrorHandler(index).pc
    /\ index' = LinkErrorHandler(index).index
    /\ UNCHANGED <<dbVars, pageNo, all_links, product_links>>
    /\ UNCHANGED <<fetchVars, coreVars>>
    /\ UNCHANGED <<inserted, repeated>>

\* An exception escapes the body of the loop after extract_product_data
\* returned: the handler of the loop takes it.
LinkRaisesLate ==
    /\ pc = "extracted"
    /\ pc' = LinkErrorHandler(index).pc
    /\ index' = LinkErrorHandler(index).index
    /\ UNCHANGED <<dbVars, pageNo, all_links, product_links, attempted>>
    /\ UNCHANGED <<fetchVars, coreVars>>
    /\ UNCHANGED <<inserted, repeated>>

\* "Completed processing all products".
PassDone ==
    /\ pc = "loop"
    /\ index = Len(product_links)
    /\ pc' = "done"
    /\ UNCHANGED <<dbVars, pageNo, all_links, product_links, index, attempted>>
    /\ UNCHANGED <<fetchVars, coreVars>>
    /\ UNCHANGED <<inserted, repeated>>

\* Scheduler.stop cancels the task: CancelledError is no Exception, so no
\* handler of run_spiders takes it.
PassCancelled ==
    /\ pc \in { "initial", "paginate", "loop", "extracted" }
    /\ pc' = "cancelled"
    /\ UNCHANGED <<dbVars, pageNo, all_links, product_links, index, attempted>>
    /\ UNCHANGED <<fetchVars, coreVars>>
    /\ UNCHANGED <<inserted, repeated>>

PassNext ==
    \/ Tick
    \/ PassStart
    \/ PassRaises
    \/ InitialLinks
    \/ PaginatePage
    \/ PaginateBreak
    \/ PaginateEnd
    \/ ExtractProduct
    \/ ExtractNothing
    \/ SaveProductOk
    \/ SaveProductFail
    \/ SkipProduct
    \/ LinkRaisesEarly
    \/ LinkRaisesLate
    \/ PassDone
    \/ PassCancelled

PassSpec == Init /\ [][PassNext]_vars

\* C8: a failure on one link (an exception, no record, a failed insert) never
\* ends the pass: the links begun are always the links left behind, in list
\* order, and a pass that ends by completing or raising has begun every link
\* of its list.
C8_EveryLinkAttempted ==
    /\ pc = "loop" => attempted = SubSeq(product_links, 1, index)
    /\ pc = "extracted" => attempted = SubSeq(product_links, 1, index + 1)
    /\ pc \in { "done", "raised" } => attempted = product_links

\* C8 witness: a completed pass over two links whose first link left nothing
\* in the store and whose second link was stored.
C8_Witness ==
    /\ pc = "done"
    /\ Len(product_links) = 2
    /\ attempted = product_links
    /\ product_links[1] \notin DOMAIN store
    /\ product_links[2] \in DOMAIN store

\* No element occurs twice in the sequence.
NoRepeats(seq) == \A i, j \in 1..Len(seq) : seq[i] = seq[j] => i = j

RECURSIVE InListingOrder(_)
InListingOrder(seq) ==
    IF seq = << >> THEN << >>
    ELSE LET front == InListingOrder(SubSeq(seq, 1, Len(seq) - 1))
             last == seq[Len(seq)]
         IN  IF last \in Range(front) THEN front ELSE Append(front, last)

\* C13: the link list _process_pagination returns is in listing-page order;
\* each page adds at most LinkCap links, and no page beyond max_pages is read.
C13_OrderedLinkList ==
    [][ /\ (pc = "paginate" /\ pc' = "loop")
            => product_links' = InListingOrder(all_links)
        /\ (pc = "paginate" /\ pc' = "paginate")
            => /\ Len(all_links') - Len(all_links) <= LinkCap
               /\ pageNo <= max_pages ]_vars

\* =========================================================================
\* RateLimiter.acquire (core/rate_limiter.py): specification LimiterSpec
\* =========================================================================
\* requests per second, config/settings.py
RATE_LIMIT == 1

\* 1 / self.rate_limit, in clock ticks
MinInterval == TicksPerSecond \div RATE_LIMIT

\* The history of returns of one domain after a return at reading t: the last
\* two readings.
NoteReturn(rets, t) ==
    IF Len(rets) < 2 THEN Append(rets, t) ELSE <<rets[2], t>>

\* line 13-15: the domain is known and its stored reading is too recent.
MustWait(lrt, d, current_time) ==
    /\ d \in DOMAIN lrt
    /\ current_time - lrt[d] < MinInterval

\* line 16: the seconds handed to asyncio.sleep
SleepFor(lrt, d, current_time) == MinInterval - (current_time - lrt[d])

\* line 18: self.last_request_time[domain] = time.time()
Stamp(lrt, d, t) == [x \in DOMAIN lrt \cup {d} |-> IF x = d THEN t ELSE lrt[x]]

\* time.time() reads a later value.
ClockTick ==
    /\ clock < MaxClock
    /\ clock' = clock + 1
    /\ UNCHANGED <<last_request_time, acq, returned>>
    /\ UNCHANGED <<dbVars, fetchVars, crawlVars, schedVars, callVars, swept>>

\* acquire(d) with nothing to wait for: no await is reached, so the call
\* stamps and returns in one step of the event loop.
AcquireNoWait(c, d) ==
    /\ acq[c].pc = "idle"
    /\ ~MustWait(last_request_time, d, clock)
    /\ last_request_time' = Stamp(last_request_time, d, clock)
    /\ returned' = [returned EXCEPT ![d] = NoteReturn(@, clock)]
    /\ UNCHANGED <<clock, acq>>
    /\ UNCHANGED <<dbVars, fetchVars, crawlVars, schedVars, callVars, swept>>

\* acquire(d), lines 12-16: the caller is suspended in asyncio.sleep for the
\* rest of the interval, computed from the reading stored at this moment.
AcquireSleep(c, d) ==
    /\ acq[c].pc = "idle"
    /\ MustWait(last_request_time, d, clock)
    /\ acq' = [acq EXCEPT ![c] = [pc |-> "sleeping", domain |-> d,
                                  wake |-> clock + SleepFor(last_request_time, d, clock)]]
    /\ UNCHANGED <<clock, last_request_time, returned>>
    /\ UNCHANGED <<dbVars, fetchVars, crawlVars, schedVars, callVars, swept>>

\* acquire, line 18: the sleep is over (the event loop resumes the caller at
\* or after the wake time); the reading is stored and the call returns.
AcquireWake(c) ==
    /\ acq[c].pc = "sleeping"
    /\ clock >= acq[c].wake
    /\ last_request_time' = Stamp(last_request_time, acq[c].domain, clock)
    /\ returned' = [returned EXCEPT ![acq[c].domain] = NoteReturn(@, clock)]
    /\ acq' = [acq EXCEPT ![c] = IdleCall]
    /\ UNCHANGED clock
    /\ UNCHANGED <<dbVars, fetchVars, crawlVars, schedVars, callVars, swept>>

LimiterNext ==
    \/ ClockTick
    \/ \E c \in Callers, d \in Domains : AcquireNoWait(c, d)
    \/ \E c \in Callers, d \in Domains : AcquireSleep(c, d)
    \/ \E c \in Callers : AcquireWake(c)

LimiterSpec == Init /\ [][LimiterNext]_vars

\* C11: any two returns of acquire for the same domain are at least
\* 1/rate_limit seconds apart, whatever the interleaving of the callers.
C11_ReturnsSpaced ==
    \A d \in Domains :
        Len(returned[d]) = 2 => returned[d][2] - returned[d][1] >= MinInterval

\* =========================================================================
\* DataCollectionSystem.start (main.py) and Scheduler (core/scheduler.py):
\* specifications SchedSpec and SchedFairSpec
\* =========================================================================
\* A history counter that stops at MaxCount.
Counted(n) == IF n < MaxCount THEN n + 1 ELSE n

\* The task of _run exists and has not finished.
TaskPending == run_pc \in { "created", "test", "pass", "interval", "backoff" }

\* The try block of start() is left: by an exception before the scheduler
\* task exists (add_signal_handler or the win32api import raises), or by the
\* completion of `await scheduler_task`.
LeavesTry ==
    \/ start_pc = "init"
    \/ start_pc = "joining" /\ run_pc \in { "returned", "cancelled" }

\* start(), lines 28-49: the event and the signal handlers are set up, the
\* scheduler task is created, start() waits for the event.
StartSystem ==
    /\ start_pc = "init"
    /\ start_pc' = "waiting"
    /\ run_pc' = "created"
    /\ UNCHANGED <<shutdown_event, running, passes, failures, signals>>
    /\ UNCHANGED <<dbVars, fetchVars, crawlVars, limiterVars, callVars, swept>>

\* Scheduler.start, lines 16-18: running = True, the task of _run is created
\* and awaited.
SchedulerStart ==
    /\ run_pc = "created"
    /\ running' = TRUE
    /\ run_pc' = "test"
    /\ UNCHANGED <<start_pc, shutdown_event, passes, failures, signals>>
    /\ UNCHANGED <<dbVars, fetchVars, crawlVars, limiterVars, callVars, swept>>

\* _run, line 21: while self.running; a pass is begun, or the loop and with
\* it the scheduler task end.
LoopTest ==
    /\ run_pc = "test"
    /\ run_pc' = IF running THEN "pass" ELSE "returned"
    /\ passes' = IF running THEN Counted(passes) ELSE passes
    /\ UNCHANGED <<start_pc, shutdown_event, running, failures, signals>>
    /\ UNCHANGED <<dbVars, fetchVars, crawlVars, limiterVars, callVars, swept>>

\* _run, lines 24-25: run_spiders returns; sleep(SCRAPING_INTERVAL) begins.
PassReturns ==
    /\ run_pc = "pass"
    /\ run_pc' = "interval"
    /\ UNCHANGED <<start_pc, shutdown_event, running, passes, failures, signals>>
    /\ UNCHANGED <<dbVars, fetchVars, crawlVars, limiterVars, callVars, swept>>

\* An exception of run_spiders leaves _run: what the loop would do without
\* the except clause.
ExceptException_Uncaught == "raised"

\* _run, lines 26-28: except Exception; where the scheduler task is after an
\* exception of run_spiders: logged, and in sleep(60) inside the loop.
ExceptException == "backoff"

\* _run, lines 26-28: run_spiders raises; logged; sleep(60) begins.
PassFails ==
    /\ run_pc = "pass"
    /\ run_pc' = ExceptException
    /\ failures' = Counted(failures)
    /\ UNCHANGED <<start_pc, shutdown_event, running, passes, signals>>
    /\ UNCHANGED <<dbVars, fetchVars, crawlVars, limiterVars, callVars, swept>>

\* _run, line 25: the sleep of SCRAPING_INTERVAL seconds is over.
IntervalOver ==
    /\ run_pc = "interval"
    /\ run_pc' = "test"
    /\ UNCHANGED <<start_pc, shutdown_event, running, passes, failures, signals>>
    /\ UNCHANGED <<dbVars, fetchVars, crawlVars, limiterVars, callVars, swept>>

\* _run, line 28: the sleep of 60 seconds is over.
BackoffOver ==
    /\ run_pc = "backoff"
    /\ run_pc' = "test"
    /\ UNCHANGED <<start_pc, shutdown_event, running, passes, failures, signals>>
    /\ UNCHANGED <<dbVars, fetchVars, crawlVars, limiterVars, callVars, swept>>

\* SIGTERM or SIGINT: the handler creates the task of shutdown(), which sets
\* the event.
ShutdownSignal ==
    /\ start_pc \in { "waiting", "joining" }
    /\ shutdown_event' = TRUE
    /\ signals' = Counted(signals)
    /\ UNCHANGED <<start_pc, running, run_pc, passes, failures>>
    /\ UNCHANGED <<dbVars, fetchVars, crawlVars, limiterVars, callVars, swept>>

\* start(), lines 49-50: the wait for the event is over; start() awaits the
\* scheduler task.
EventWakes ==
    /\ start_pc = "waiting"
    /\ shutdown_event
    /\ start_pc' = "joining"
    /\ UNCHANGED <<shutdown_event, running, run_pc, passes, failures, signals>>
    /\ UNCHANGED <<dbVars, fetchVars, crawlVars, limiterVars, callVars, swept>>

\* start(), lines 52-55, cleanup and Scheduler.stop: running = False, a
\* pending task is cancelled and awaited, the client is closed.
Cleanup ==
    /\ LeavesTry
    /\ start_pc' = "stopped"
    /\ running' = FALSE
    /\ run_pc' = IF TaskPending THEN "cancelled" ELSE run_pc
    /\ UNCHANGED <<shutdown_event, passes, failures, signals>>
    /\ UNCHANGED <<dbVars, fetchVars, crawlVars, limiterVars, callVars, swept>>

SchedNext ==
    \/ StartSystem
    \/ SchedulerStart
    \/ LoopTest
    \/ PassReturns
    \/ PassFails
    \/ IntervalOver
    \/ BackoffOver
    \/ ShutdownSignal
    \/ EventWakes
    \/ Cleanup

SchedSpec == Init /\ [][SchedNext]_vars

\* The event loop runs every task that can run, and every sleep ends; signals
\* and failures of a pass are up to the environment.
SchedFairSpec ==
    /\ SchedSpec
    /\ WF_vars(StartSystem \/ Cleanup)
    /\ WF_vars(SchedulerStart)
    /\ WF_vars(LoopTest)
    /\ WF_vars(PassReturns \/ PassFails)
    /\ WF_vars(IntervalOver)
    /\ WF_vars(BackoffOver)
    /\ WF_vars(EventWakes)

\* The system has stopped: cleanup is over, Scheduler.stop has run and the
\* scheduler loop has ended, so that no pass is started any more.
SystemStopped ==
    /\ start_pc = "stopped"
    /\ ~running
    /\ ~TaskPending

\* C14: after a shutdown signal has invoked shutdown(), the system eventually
\* stops: start() reaches cleanup, Scheduler.stop is called and the scheduler
\* loop ends.
C14_ShutdownStops == shutdown_event ~> SystemStopped

\* =========================================================================
\* The functions of the extraction (utils/helpers.py, core/data_cleaner.py,
\* spiders/base_spider.py, spiders/amazon_spider.py): specification
\* ExtractSpec.  A text is a sequence of characters; a float is an integer
\* in hundredths where it is a price and in tenths where it is a rating, and
\* the texts of the model carry no more decimals than that.
\* =========================================================================
Digit == { "0", "1", "2", "3", "4", "5", "6", "7", "8", "9" }

DigitValue(c) ==
    CASE c = "0" -> 0 [] c = "1" -> 1 [] c = "2" -> 2 [] c = "3" -> 3
      [] c = "4" -> 4 [] c = "5" -> 5 [] c = "6" -> 6 [] c = "7" -> 7
      [] c = "8" -> 8 [] c = "9" -> 9

\* int() of a string of digits; 0 for the empty string, which the callers
\* exclude beforehand.
RECURSIVE IntOf(_)
IntOf(ds) ==
    IF ds = << >> THEN 0
    ELSE 10 * IntOf(SubSeq(ds, 1, Len(ds) - 1)) + DigitValue(ds[Len(ds)])

RECURSIVE Pow10(_)
Pow10(k) == IF k = 0 THEN 1 ELSE 10 * Pow10(k - 1)

\* The positions of character c in a text.
Positions(text, c) == { i \in 1..Len(text) : text[i] = c }

\* float(s) accepts s: digits with at most one point, and at least one digit
\* (the texts of the model hold no sign, exponent, "inf" or "nan").
FloatParses(s) ==
    /\ \A i \in 1..Len(s) : s[i] \in Digit \cup { "." }
    /\ Cardinality(Positions(s, ".")) <= 1
    /\ \E i \in 1..Len(s) : s[i] \in Digit

\* The value of float(s) in units of 10^-k, for s with at most k decimals.
Scaled(s, k) ==
    LET p == IF Positions(s, ".") = {} THEN Len(s) + 1
             ELSE CHOOSE i \in Positions(s, ".") : TRUE
        whole == SubSeq(s, 1, p - 1)
        frac == SubSeq(s, p + 1, Len(s))
        padded == [i \in 1..k |-> IF i <= Len(frac) THEN frac[i] ELSE "0"]
    IN  IntOf(whole) * Pow10(k) + IntOf(padded)

\* float(s): the value, or ValueError.
FloatOf(s, k) == IF FloatParses(s) THEN Ok(Scaled(s, k)) ELSE Raise("ValueError")

\* re.sub(r'[^\d.]', '', text)
KeepDigitsAndPoints(text) == SelectSeq(text, LAMBDA c : c \in Digit \cup { "." })

\* ''.join(filter(str.isdigit, text.replace(',', '')))
KeepDigits(text) == SelectSeq(text, LAMBDA c : c \in Digit)

\* helpers.parse_price; re.sub raises TypeError on None.
parse_price(price_str) ==
    Catch(IF price_str = None THEN Raise("TypeError")
          ELSE FloatOf(KeepDigitsAndPoints(price_str[1]), 2),
          { "ValueError", "TypeError" }, Ok(0))

\* DataCleaner.clean_price
clean_price(price) ==
    Catch(IF price = None THEN Raise("TypeError")
          ELSE FloatOf(KeepDigitsAndPoints(price[1]), 2),
          { "ValueError", "TypeError" }, Ok(0))

\* BaseSpider._extract_price; None.replace raises AttributeError.
extract_price(price_text) ==
    Catch(IF price_text = None THEN Raise("AttributeError")
          ELSE FloatOf(KeepDigits(price_text[1]), 2),
          { "ValueError", "AttributeError" }, Ok(0))

\* Price texts: None (no text at all) and the texts
\*   ""
\*   " "
\*   "N/A"
\*   "."
\*   "1.2.3"
\*   "1299"
\*   "1,299"
\*   "1,299.50"
\*   "12.5"
\*   "Rs 45,000.00"
PriceTexts ==
    { None,
      Some(<< >>),
      Some(<<" ">>),
      Some(<<"N", "/", "A">>),
      Some(<<".">>),
      Some(<<"1", ".", "2", ".", "3">>),
      Some(<<"1", "2", "9", "9">>),
      Some(<<"1", ",", "2", "9", "9">>),
      Some(<<"1", ",", "2", "9", "9", ".", "5", "0">>),
      Some(<<"1", "2", ".", "5">>),
      Some(<<"R", "s", " ", "4", "5", ",", "0", "0", "0", ".", "0", "0">>) }

PriceInputs == { [kind |-> "price", text |-> t] : t \in PriceTexts }


\* ------------------------------------------------- re / str operations
\* str.lower() of a character.
Lower(c) ==
    CASE c = "A" -> "a"
      [] c = "B" -> "b"
      [] c = "C" -> "c"
      [] c = "D" -> "d"
      [] c = "E" -> "e"
      [] c = "F" -> "f"
      [] c = "G" -> "g"
      [] c = "H" -> "h"
      [] c = "I" -> "i"
      [] c = "J" -> "j"
      [] c = "K" -> "k"
      [] c = "L" -> "l"
      [] c = "M" -> "m"
      [] c = "N" -> "n"
      [] c = "O" -> "o"
      [] c = "P" -> "p"
      [] c = "Q" -> "q"
      [] c = "R" -> "r"
      [] c = "S" -> "s"
      [] c = "T" -> "t"
      [] c = "U" -> "u"
      [] c = "V" -> "v"
      [] c = "W" -> "w"
      [] c = "X" -> "x"
      [] c = "Y" -> "y"
      [] c = "Z" -> "z"
      [] OTHER -> c

\* text.lower()
LowerText(text) == [i \in 1..Len(text) |-> Lower(text[i])]

\* The word stands in the text at position i.
WordAt(text, i, word) ==
    /\ i >= 1
    /\ i + Len(word) - 1 <= Len(text)
    /\ SubSeq(text, i, i + Len(word) - 1) = word

\* word in text
Contains(text, word) == \E i \in 1..Len(text) : WordAt(text, i, word)

\* word.lower() in text.lower(), and re.search(word, text, re.IGNORECASE) for
\* a pattern that is a plain word
ContainsNoCase(text, word) == Contains(LowerText(text), LowerText(word))

\* The position after the longest run of characters of S that starts at i.
RECURSIVE AfterRun(_, _, _)
AfterRun(text, i, S) ==
    IF i <= Len(text) /\ text[i] \in S THEN AfterRun(text, i + 1, S) ELSE i

\* The least element of a non-empty set of positions.
MinOf(S) == CHOOSE x \in S : \A y \in S : x <= y

\* The starts of the matches of (run of S)\s*(?:w1|w2|...) with re.IGNORECASE.
\* The run is the longest one: a shorter one is followed by a character of
\* S, which is neither whitespace nor the start of a word.
RunMatches(text, S, words) ==
    { i \in 1..Len(text) :
        /\ text[i] \in S
        /\ \E w \in words :
             WordAt(LowerText(text), AfterRun(text, AfterRun(text, i, S), Whitespace), w) }

\* group(1) of re.search of that pattern: the run of the leftmost match, None
\* when there is no match.
RunBefore(text, S, words) ==
    IF RunMatches(text, S, words) = {} THEN None
    ELSE LET i == MinOf(RunMatches(text, S, words))
         IN  Some(SubSeq(text, i, AfterRun(text, i, S) - 1))

\* next((specs.get(key, '') for key in keys if key in specs), ''): the text
\* under the first key that is present.
FirstPresent(specs, keys) ==
    LET present == { i \in 1..Len(keys) : keys[i] \in DOMAIN specs }
    IN  IF present = {} THEN << >> ELSE specs[keys[MinOf(present)]]

\* The first entry of an ordered table among the entries at the positions
\* hits (those the test of the loop accepts); the default when there is none.
FirstOf(table, hits, default) ==
    IF hits = {} THEN default ELSE table[MinOf(hits)]


\* str.upper() of a character.
Upper(c) ==
    CASE c = "a" -> "A"
      [] c = "b" -> "B"
      [] c = "c" -> "C"
      [] c = "d" -> "D"
      [] c = "e" -> "E"
      [] c = "f" -> "F"
      [] c = "g" -> "G"
      [] c = "h" -> "H"
      [] c = "i" -> "I"
      [] c = "j" -> "J"
      [] c = "k" -> "K"
      [] c = "l" -> "L"
      [] c = "m" -> "M"
      [] c = "n" -> "N"
      [] c = "o" -> "O"
      [] c = "p" -> "P"
      [] c = "q" -> "Q"
      [] c = "r" -> "R"
      [] c = "s" -> "S"
      [] c = "t" -> "T"
      [] c = "u" -> "U"
      [] c = "v" -> "V"
      [] c = "w" -> "W"
      [] c = "x" -> "X"
      [] c = "y" -> "Y"
      [] c = "z" -> "Z"
      [] OTHER -> c

\* text.upper()
UpperText(text) == [i \in 1..Len(text) |-> Upper(text[i])]

\* group() of re.search of (run of S)\s*(?:w1|w2|...), all words of one
\* length n, when there is a match: from the start of the run to the end of
\* the word.
WholeMatch(text, S, words, n) ==
    LET i == MinOf(RunMatches(text, S, words))
    IN  SubSeq(text, i, AfterRun(text, AfterRun(text, i, S), Whitespace) + n - 1)

\* ----------------------------------------------- _extract_ram_info
ram_keys == << "ram", "memory", "ram_memory_installed_size" >>

\* ram_types, in the order of the list
ram_types ==
    << <<"D", "D", "R", "4">>, <<"D", "D", "R", "5">>, <<"L", "P", "D", "D", "R", "4">>,
       <<"L", "P", "D", "D", "R", "4", "X">>, <<"L", "P", "D", "D", "R", "5">> >>

extract_ram_info(specs) ==
    LET ram_info == FirstPresent(specs, ram_keys)
        size_match == RunBefore(ram_info, Digit, { <<"g", "b">> })
        speed_match == RunBefore(ram_info, Digit, { <<"m", "h", "z">> })
    IN  Ok([ size  |-> IF size_match = None THEN << >> ELSE size_match[1] \o <<"G", "B">>,
             type  |-> FirstOf(ram_types,
                              { i \in 1..Len(ram_types) : Contains(ram_info, ram_types[i]) },
                              << >>),
             speed |-> IF speed_match = None THEN << >> ELSE speed_match[1] \o <<"M", "H", "z">> ])

\* ----------------------------------------------- _extract_processor_info
processor_keys == << "processor_type", "processor", "cpu_model" >>

brands == << <<"I", "n", "t", "e", "l">>, <<"A", "M", "D">>, <<"A", "p", "p", "l", "e">> >>

\* cpu_models, in the order of the dict: the word of the pattern, whether
\* \s*\d follows it, and the model it stands for.
cpu_models ==
    << [word |-> <<"i", "3">>, digit |-> FALSE, model |-> "Core i3"],
       [word |-> <<"i", "5">>, digit |-> FALSE, model |-> "Core i5"],
       [word |-> <<"i", "7">>, digit |-> FALSE, model |-> "Core i7"],
       [word |-> <<"i", "9">>, digit |-> FALSE, model |-> "Core i9"],
       [word |-> <<"r", "y", "z", "e", "n">>, digit |-> TRUE, model |-> "Ryzen"],
       [word |-> <<"c", "e", "l", "e", "r", "o", "n">>, digit |-> FALSE, model |-> "Celeron"],
       [word |-> <<"p", "e", "n", "t", "i", "u", "m">>, digit |-> FALSE, model |-> "Pentium"] >>

\* re.search(pattern, text, re.IGNORECASE) for a pattern of cpu_models
ModelFound(text, p) ==
    \E i \in 1..Len(text) :
        /\ WordAt(LowerText(text), i, p.word)
        /\ p.digit =>
             LET k == AfterRun(text, i + Len(p.word), Whitespace)
             IN  k <= Len(text) /\ text[k] \in Digit

\* The starts of the matches of (\d+)(?:th|st|nd|rd)\s*Gen, re.IGNORECASE.
GenMatches(text) ==
    { i \in 1..Len(text) :
        /\ text[i] \in Digit
        /\ LET j == AfterRun(text, i, Digit)
           IN  /\ \E sfx \in { <<"t", "h">>, <<"s", "t">>, <<"n", "d">>, <<"r", "d">> } : WordAt(LowerText(text), j, sfx)
               /\ WordAt(LowerText(text), AfterRun(text, j + 2, Whitespace), <<"g", "e", "n">>) }

\* The extractor has no try block: the ValueError of float(speed_match.group(1))
\* leaves it.
extract_processor_info(specs) ==
    LET processor_info == FirstPresent(specs, processor_keys)
        speed_words == { <<"g", "h", "z">>, <<"m", "h", "z">> }
        speed_match == RunBefore(processor_info, Digit \cup { "." }, speed_words)
        speed == IF speed_match = None THEN Ok(0) ELSE FloatOf(speed_match[1], 2)
        unit == IF speed_match # None
                   /\ Contains(UpperText(WholeMatch(processor_info, Digit \cup { "." }, speed_words, 3)),
                               <<"M", "H", "z">>)
                THEN "MHz" ELSE "GHz"
        cores_match == RunBefore(processor_info, Digit, { <<"c", "o", "r", "e">>, <<"p", "r", "o", "c", "e", "s", "s", "o", "r">> })
        found == FirstOf(cpu_models,
                         { i \in 1..Len(cpu_models) : ModelFound(processor_info, cpu_models[i]) },
                         [word |-> << >>, digit |-> FALSE, model |-> ""])
    IN  IF speed.exc # "none" THEN speed
        ELSE Ok([ brand |-> FirstOf(brands,
                                   { i \in 1..Len(brands) : ContainsNoCase(processor_info, brands[i]) },
                                   << >>),
                  generation |-> IF GenMatches(processor_info) = {} THEN << >>
                                 ELSE LET i == MinOf(GenMatches(processor_info))
                                      IN  SubSeq(processor_info, i, AfterRun(processor_info, i, Digit) - 1)
                                          \o <<"t", "h", " ", "G", "e", "n">>,
                  model |-> found.model,
                  speed |-> IF speed_match = None THEN None
                            ELSE Some([value |-> speed.value[1], unit |-> unit]),
                  cores |-> IF cores_match = None THEN << >> ELSE cores_match[1] ])


\* ------------------------------------------------- regular expressions
\* A pattern is a sequence of parts, matched with re.IGNORECASE: the words of
\* a part are written in lower case and compared with the lowered text.
\*   Word(ws): one of the alternatives ws         (abc, [A-C], \d, a|b)
\*   Opt(ws) : one of the alternatives ws, or nothing   (x?, (?:abc)?)
\*   Run(S)  : the longest run of characters of S       (\s*, (?:\s+)?)
\* At one position at most one alternative of a part matches in the patterns
\* below, and no part that follows a Run starts with a character of its set,
\* so the longest run is the one the regex engine settles on.
Word(ws) == [kind |-> "word", words |-> ws, chars |-> {}]
Opt(ws) == [kind |-> "opt", words |-> ws, chars |-> {}]
Run(S) == [kind |-> "run", words |-> {}, chars |-> S]

\* The one-character words of a character class.
OneOf(S) == { <<c>> : c \in S }

LowerLetters ==
    { "a", "b", "c", "d", "e", "f", "g", "h", "i", "j", "k", "l", "m", "n",
      "o", "p", "q", "r", "s", "t", "u", "v", "w", "x", "y", "z" }

\* The position after the match of the parts k.. of pat at position i of
\* text, 0 when there is none. An optional part is taken when the rest
\* matches after it, and left out otherwise.
RECURSIVE MatchEnd(_, _, _, _)
MatchEnd(text, i, pat, k) ==
    IF k > Len(pat) THEN i
    ELSE IF pat[k].kind = "run"
         THEN MatchEnd(text, AfterRun(text, i, pat[k].chars), pat, k + 1)
    ELSE LET hit == { w \in pat[k].words : WordAt(LowerText(text), i, w) }
             taken == IF hit = {} THEN 0
                      ELSE MatchEnd(text, i + Len(CHOOSE w \in hit : TRUE), pat, k + 1)
         IN  IF taken # 0 THEN taken
             ELSE IF pat[k].kind = "opt" THEN MatchEnd(text, i, pat, k + 1)
             ELSE 0

\* match.group() of the matches re.finditer(pat, text, re.IGNORECASE) yields
\* from position i on, in the order of the iterator: leftmost first, the
\* next search starts where the match ended.
RECURSIVE FindList(_, _, _)
FindList(text, pat, i) ==
    IF i > Len(text) THEN << >>
    ELSE LET end == MatchEnd(text, i, pat, 1)
         IN  IF end = 0 \/ end = i THEN FindList(text, pat, i + 1)
             ELSE << SubSeq(text, i, end - 1) >> \o FindList(text, pat, end)

\* The set of those matches.
FindAll(text, pat, i) == Range(FindList(text, pat, i))

\* The characters of the texts, in the order of their code points.
CodePoints ==
    << " ", ",", "-", ".", "/", "0", "1", "2", "3", "4", "5", "6", "7", "8", "9",
       "A", "B", "C", "D", "E", "F", "G", "H", "I", "J", "K", "L", "M", "N",
       "O", "P", "Q", "R", "S", "T", "U", "V", "W", "X", "Y", "Z",
       "a", "b", "c", "d", "e", "f", "g", "h", "i", "j", "k", "l", "m", "n",
       "o", "p", "q", "r", "s", "t", "u", "v", "w", "x", "y", "z" >>

\* ord(c)
Ord(c) == CHOOSE i \in 1..Len(CodePoints) : CodePoints[i] = c

\* a < b for two strings: by code point at the first difference, a proper
\* prefix first.
RECURSIVE TextLess(_, _)
TextLess(a, b) ==
    IF b = << >> THEN FALSE
    ELSE IF a = << >> THEN TRUE
    ELSE IF Head(a) # Head(b) THEN Ord(Head(a)) < Ord(Head(b))
    ELSE TextLess(Tail(a), Tail(b))

\* sorted(list(S)) of a set of strings
RECURSIVE Sorted(_)
Sorted(S) ==
    IF S = {} THEN << >>
    ELSE LET least == CHOOSE a \in S : \A b \in S \ { a } : TextLess(a, b)
         IN  <<least>> \o Sorted(S \ { least })

\* ' '.join(texts)
RECURSIVE JoinWithSpace(_)
JoinWithSpace(texts) ==
    IF texts = << >> THEN << >>
    ELSE IF Len(texts) = 1 THEN texts[1]
    ELSE texts[1] \o <<" ">> \o JoinWithSpace(Tail(texts))

\* ---------------------------------------------- _extract_storage_info
storage_keys == << "hard_drive", "storage", "hard_disk" >>

\* The names of storage_types, in the order of the dict.
storage_types ==
    << <<"S", "S", "D">>, <<"H", "D", "D">>, <<"e", "M", "M", "C">>, <<"N", "V", "M", "e">> >>

\* The pattern of a type: (\d+)\s*(?:GB|TB)?\s*type
StoragePattern(type) ==
    << Word(OneOf(Digit)), Run(Digit), Run(Whitespace),
       Opt({ <<"g", "b">>, <<"t", "b">> }), Run(Whitespace), Word({ LowerText(type) }) >>

\* f"{size}{unit}" of a match: group(1), and TB when the matched text holds
\* "TB" in capitals, GB otherwise.
Capacity(match) ==
    SubSeq(match, 1, AfterRun(match, 1, Digit) - 1)
    \o (IF Contains(match, <<"T", "B">>) THEN <<"T", "B">> ELSE <<"G", "B">>)

\* The body of the loop over the matches of one type: the first match of
\* all is the primary; the next match ends the loop over this type's
\* matches, as secondary.
ScanType(result, type, matches) ==
    IF matches = << >> THEN result
    ELSE IF result.primary_type = << >>
    THEN LET first == [result EXCEPT !.primary_type = type,
                                     !.primary_capacity = Capacity(matches[1])]
         IN  IF Len(matches) = 1 THEN first
             ELSE [first EXCEPT !.secondary_type = type,
                                !.secondary_capacity = Capacity(matches[2])]
    ELSE [result EXCEPT !.secondary_type = type,
                        !.secondary_capacity = Capacity(matches[1])]

\* The loop over storage_types from the k-th type on; found_primary holds
\* exactly when primary_type has been set.
RECURSIVE ScanTypes(_, _, _)
ScanTypes(storage_info, k, result) ==
    IF k > Len(storage_types) THEN result
    ELSE ScanTypes(storage_info, k + 1,
                   ScanType(result, storage_types[k],
                            FindList(storage_info, StoragePattern(storage_types[k]), 1)))

StorageDefault ==
    [ primary_type |-> << >>, primary_capacity |-> << >>,
      secondary_type |-> << >>, secondary_capacity |-> << >> ]

extract_storage_info(specs) ==
    Ok(ScanTypes(FirstPresent(specs, storage_keys), 1, StorageDefault))

\* ---------------------------------------------- _extract_ports_info
port_keys == << "ports", "connectivity_type", "hardware_interface", "interfaces" >>

\* port_patterns, in the order of the list
port_patterns ==
    <<
       \* USB (?:\d\.?\d?)(?: Type-[A-C])?
       << Word({ <<"u", "s", "b", " ">> }),
          Word(OneOf(Digit)),
          Opt({ <<".">> }),
          Opt(OneOf(Digit)),
          Opt({ <<" ", "t", "y", "p", "e", "-", "a">>, <<" ", "t", "y", "p", "e", "-", "b">>, <<" ", "t", "y", "p", "e", "-", "c">> }) >>,
       \* Type-C
       << Word({ <<"t", "y", "p", "e", "-", "c">> }) >>,
       \* Thunderbolt\s*\d?
       << Word({ <<"t", "h", "u", "n", "d", "e", "r", "b", "o", "l", "t">> }),
          Run(Whitespace),
          Opt(OneOf(Digit)) >>,
       \* HDMI ?\d?\.?\d?[a-z]?
       << Word({ <<"h", "d", "m", "i">> }),
          Opt({ <<" ">> }),
          Opt(OneOf(Digit)),
          Opt({ <<".">> }),
          Opt(OneOf(Digit)),
          Opt(OneOf(LowerLetters)) >>,
       \* DisplayPort(?:\s*\d?\.?\d?)?
       << Word({ <<"d", "i", "s", "p", "l", "a", "y", "p", "o", "r", "t">> }),
          Run(Whitespace),
          Opt(OneOf(Digit)),
          Opt({ <<".">> }),
          Opt(OneOf(Digit)) >>,
       \* VGA
       << Word({ <<"v", "g", "a">> }) >>,
       \* D-Sub
       << Word({ <<"d", "-", "s", "u", "b">> }) >>,
       \* RJ45
       << Word({ <<"r", "j", "4", "5">> }) >>,
       \* Ethernet
       << Word({ <<"e", "t", "h", "e", "r", "n", "e", "t">> }) >>,
       \* (?:3\.5mm|audio|headphone|mic)(?:\s+)?(?:combo)?(?:\s+)?jack
       << Word({ <<"3", ".", "5", "m", "m">>, <<"a", "u", "d", "i", "o">>, <<"h", "e", "a", "d", "p", "h", "o", "n", "e">>, <<"m", "i", "c">> }),
          Run(Whitespace),
          Opt({ <<"c", "o", "m", "b", "o">> }),
          Run(Whitespace),
          Word({ <<"j", "a", "c", "k">> }) >>,
       \* Audio(?:\s+)?(?:Combo)?(?:\s+)?Jack
       << Word({ <<"a", "u", "d", "i", "o">> }),
          Run(Whitespace),
          Opt({ <<"c", "o", "m", "b", "o">> }),
          Run(Whitespace),
          Word({ <<"j", "a", "c", "k">> }) >>,
       \* SD card reader
       << Word({ <<"s", "d", " ", "c", "a", "r", "d", " ", "r", "e", "a", "d", "e",
          "r">> }) >>,
       \* microSD slot
       << Word({ <<"m", "i", "c", "r", "o", "s", "d", " ", "s", "l", "o", "t">> }) >>,
       \* Kensington lock
       << Word({ <<"k", "e", "n", "s", "i", "n", "g", "t", "o", "n", " ", "l", "o",
          "c", "k">> }) >>
    >>

\* The values under the port keys that are present, in the order of the keys.
PortValues(specs) ==
    LET present == SelectSeq(port_keys, LAMBDA k : k \in DOMAIN specs)
    IN  [i \in 1..Len(present) |-> specs[present[i]]]

\* ports.add(match.group().strip()) for every match of every pattern: the
\* token as the text spells it.
PortToken(match) == Strip(match)

\* The sorted list of the set of tokens.
extract_ports_info(specs) ==
    LET ports_info == JoinWithSpace(PortValues(specs))
    IN  Ok(Sorted(UNION { { PortToken(m) : m \in FindAll(ports_info, port_patterns[p], 1) } :
                          p \in 1..Len(port_patterns) }))

\* ------------------------------------------ _extract_dimensions_info
dimension_keys == << "dimensions", "product_dimensions", "item_dimensions" >>
weight_keys == << "weight", "item_weight", "product_weight" >>

\* The character U+00D7 of the second dimension pattern.
MultiplicationSign == "U+00D7"

\* The separators of the two dimension patterns, in the order of the list:
\* x, and [(U+00D7)x].
dimension_patterns == << { "x" }, { "x", MultiplicationSign } >>

\* The position after the match of \d+\.?\d* at position i, 0 when the text
\* has no digit there.
NumberEnd(text, i) ==
    IF i < 1 \/ i > Len(text) \/ text[i] \notin Digit THEN 0
    ELSE LET whole == AfterRun(text, i, Digit)
             point == IF whole <= Len(text) /\ text[whole] = "." THEN whole + 1 ELSE whole
         IN  AfterRun(text, point, Digit)

\* The position after the match of \s*[seps]\s* at position i (letters
\* without regard to case), 0 when there is none.
SeparatorEnd(text, i, seps) ==
    LET at == AfterRun(text, i, Whitespace)
    IN  IF i = 0 \/ at > Len(text) \/ Lower(text[at]) \notin seps THEN 0
        ELSE AfterRun(text, at + 1, Whitespace)

\* The three groups of number sep number sep number \s*(?:cm|mm|inches)
\* matched at position i; << >> when the pattern does not match there.
TripleAt(text, i, seps) ==
    LET e1 == NumberEnd(text, i)
        s2 == SeparatorEnd(text, e1, seps)
        e2 == NumberEnd(text, s2)
        s3 == SeparatorEnd(text, e2, seps)
        e3 == NumberEnd(text, s3)
        unit == AfterRun(text, e3, Whitespace)
    IN  IF /\ e1 # 0 /\ s2 # 0 /\ e2 # 0 /\ s3 # 0 /\ e3 # 0
           /\ \E w \in { <<"c", "m">>, <<"m", "m">>, <<"i", "n", "c", "h", "e", "s">> } :
                WordAt(LowerText(text), unit, w)
        THEN << SubSeq(text, i, e1 - 1), SubSeq(text, s2, e2 - 1), SubSeq(text, s3, e3 - 1) >>
        ELSE << >>

\* re.search of a dimension pattern: the groups of the leftmost match,
\* << >> when there is none.
SearchTriple(text, seps) ==
    LET starts == { i \in 1..Len(text) : TripleAt(text, i, seps) # << >> }
    IN  IF starts = {} THEN << >> ELSE TripleAt(text, MinOf(starts), seps)

\* n / d rounded to the nearest integer; the texts below give no ties.
RoundDiv(n, d) == (2 * n + d) \div (2 * d)

\* The multiplier, in hundredths: one unit for the whole text.
Multiplier(dimensions_info) ==
    IF Contains(LowerText(dimensions_info), <<"m", "m">>) THEN 10
    ELSE IF Contains(LowerText(dimensions_info), <<"i", "n", "c", "h", "e", "s">>) THEN 254
    ELSE 100

\* round(float(group) * multiplier, 2), in hundredths of a centimeter.
Centimeters(group, multiplier) == RoundDiv(Scaled(group, 2) * multiplier, 100)

\* re.search of (\d+\.?\d*)\s*(kg|pounds?|lbs?|g), re.IGNORECASE: the number
\* and the unit of the leftmost match, << >> when there is none.
weight_units ==
    << <<"k", "g">>, <<"p", "o", "u", "n", "d">>, <<"l", "b">>, <<"g">> >>

WeightAt(text, i) ==
    LET e == NumberEnd(text, i)
        u == AfterRun(text, e, Whitespace)
        hits == { k \in 1..Len(weight_units) : WordAt(LowerText(text), u, weight_units[k]) }
    IN  IF e = 0 \/ hits = {} THEN << >>
        ELSE << SubSeq(text, i, e - 1), weight_units[MinOf(hits)] >>

SearchWeight(text) ==
    LET starts == { i \in 1..Len(text) : WeightAt(text, i) # << >> }
    IN  IF starts = {} THEN << >> ELSE WeightAt(text, MinOf(starts))

\* The factor to kilograms, in millionths.
WeightFactor(unit) ==
    IF Head(unit) \in { "p", "l" } THEN 453592
    ELSE IF Head(unit) = "g" THEN 1000
    ELSE 1000000

\* length, width, height in hundredths of a centimeter and weight in
\* hundredths of a kilogram; 0 where nothing was read.
extract_dimensions_info(specs) ==
    LET dimensions_info == FirstPresent(specs, dimension_keys)
        matched == { p \in 1..Len(dimension_patterns) :
                       SearchTriple(dimensions_info, dimension_patterns[p]) # << >> }
        groups == IF matched = {} THEN << >>
                  ELSE SearchTriple(dimensions_info, dimension_patterns[MinOf(matched)])
        multiplier == Multiplier(dimensions_info)
        weight_match == SearchWeight(FirstPresent(specs, weight_keys))
    IN  Ok([ length |-> IF groups = << >> THEN 0 ELSE Centimeters(groups[1], multiplier),
             width  |-> IF groups = << >> THEN 0 ELSE Centimeters(groups[2], multiplier),
             height |-> IF groups = << >> THEN 0 ELSE Centimeters(groups[3], multiplier),
             weight |-> IF weight_match = << >> THEN 0
                        ELSE RoundDiv(Scaled(weight_match[1], 2) * WeightFactor(weight_match[2]),
                                      1000000) ])

\* ------------------------------------------------------------ inputs
\* Texts of a memory row of the spec table:
\*   "16GB LPDDR4X"
\*   "8 GB DDR4 3200 MHz"
\*   "16GB DDR5"
\*   "8gb LPDDR5"
\*   "4GB LPDDR4"
\*   "32GB"
\*   "Dual channel"
RamTexts ==
    { <<"1", "6", "G", "B", " ", "L", "P", "D", "D", "R", "4", "X">>,
      <<"8", " ", "G", "B", " ", "D", "D", "R", "4", " ", "3", "2", "0", "0",
        " ", "M", "H", "z">>,
      <<"1", "6", "G", "B", " ", "D", "D", "R", "5">>,
      <<"8", "g", "b", " ", "L", "P", "D", "D", "R", "5">>,
      <<"4", "G", "B", " ", "L", "P", "D", "D", "R", "4">>,
      <<"3", "2", "G", "B">>,
      <<"D", "u", "a", "l", " ", "c", "h", "a", "n", "n", "e", "l">> }

\* Texts of a ports row of the spec table:
\*   "USB 3.0, usb 3.0, HDMI"
\*   "2 x USB 3.0 Type-A, HDMI 2.0b, Audio Combo Jack"
\*   "Thunderbolt 4, USB 3.2, DisplayPort 1.4"
\*   "Wi-Fi"
\*   "Ethernet, VGA, SD card reader"
PortTexts ==
    { <<"U", "S", "B", " ", "3", ".", "0", ",", " ", "u", "s", "b", " ", "3",
        ".", "0", ",", " ", "H", "D", "M", "I">>,
      <<"2", " ", "x", " ", "U", "S", "B", " ", "3", ".", "0", " ", "T", "y",
        "p", "e", "-", "A", ",", " ", "H", "D", "M", "I", " ", "2", ".", "0",
        "b", ",", " ", "A", "u", "d", "i", "o", " ", "C", "o", "m", "b", "o",
        " ", "J", "a", "c", "k">>,
      <<"T", "h", "u", "n", "d", "e", "r", "b", "o", "l", "t", " ", "4", ",",
        " ", "U", "S", "B", " ", "3", ".", "2", ",", " ", "D", "i", "s", "p",
        "l", "a", "y", "P", "o", "r", "t", " ", "1", ".", "4">>,
      <<"W", "i", "-", "F", "i">>,
      <<"E", "t", "h", "e", "r", "n", "e", "t", ",", " ", "V", "G", "A", ",",
        " ", "S", "D", " ", "c", "a", "r", "d", " ", "r", "e", "a", "d", "e",
        "r">> }

\* Texts of two rows that name one port each: "USB 3.0", "usb 3.0", "HDMI"
OnePortTexts ==
    { <<"U", "S", "B", " ", "3", ".", "0">>,
      <<"u", "s", "b", " ", "3", ".", "0">>,
      <<"H", "D", "M", "I">> }

\* Texts of a dimensions row of the spec table:
\*   "350mm x 240mm x 18mm"
\*   "35 x 24 x 1.8 cm"
\*   "350 x 240 x 18 mm"
\*   "14.1 x 9.5 x 0.7 inches"
\*   "35.6 (U+00D7) 23.4 (U+00D7) 1.8 cm"
\*   "Slim"
DimensionTexts ==
    { <<"3", "5", "0", "m", "m", " ", "x", " ", "2", "4", "0", "m", "m", " ",
        "x", " ", "1", "8", "m", "m">>,
      <<"3", "5", " ", "x", " ", "2", "4", " ", "x", " ", "1", ".", "8", " ",
        "c", "m">>,
      <<"3", "5", "0", " ", "x", " ", "2", "4", "0", " ", "x", " ", "1", "8",
        " ", "m", "m">>,
      <<"1", "4", ".", "1", " ", "x", " ", "9", ".", "5", " ", "x", " ", "0",
        ".", "7", " ", "i", "n", "c", "h", "e", "s">>,
      <<"3", "5", ".", "6", " ", MultiplicationSign, " ", "2", "3", ".", "4", " ", MultiplicationSign, " ",
        "1", ".", "8", " ", "c", "m">>,
      <<"S", "l", "i", "m">> }

\* Texts of a weight row of the spec table:
\*   "1.8 kg"
\*   "4.2 pounds"
\*   "1500 g"
\*   "Light"
WeightTexts ==
    { <<"1", ".", "8", " ", "k", "g">>,
      <<"4", ".", "2", " ", "p", "o", "u", "n", "d", "s">>,
      <<"1", "5", "0", "0", " ", "g">>,
      <<"L", "i", "g", "h", "t">> }

\* Texts of a storage row of the spec table:
\*   "512GB SSD"
\*   "1TB HDD + 256GB SSD"
\*   "512GB SSD + 1TB HDD + 64GB eMMC"
\*   "256GB SSD, 512GB SSD"
\*   "1tb hdd"
\*   "Fast storage"
StorageTexts ==
    { <<"5", "1", "2", "G", "B", " ", "S", "S", "D">>,
      <<"1", "T", "B", " ", "H", "D", "D", " ", "+", " ", "2", "5", "6", "G",
        "B", " ", "S", "S", "D">>,
      <<"5", "1", "2", "G", "B", " ", "S", "S", "D", " ", "+", " ", "1", "T",
        "B", " ", "H", "D", "D", " ", "+", " ", "6", "4", "G", "B", " ", "e",
        "M", "M", "C">>,
      <<"2", "5", "6", "G", "B", " ", "S", "S", "D", ",", " ", "5", "1", "2",
        "G", "B", " ", "S", "S", "D">>,
      <<"1", "t", "b", " ", "h", "d", "d">>,
      <<"F", "a", "s", "t", " ", "s", "t", "o", "r", "a", "g", "e">> }

\* Texts of a processor row of the spec table:
\*   "Intel Core i5 11th Gen 2.4 GHz 4 cores"
\*   "AMD Ryzen 5 3.3GHz"
\*   "Intel 1.2.3 GHz"
\*   "Apple M1 8 cores"
\*   "Celeron 800 MHz"
\*   "2nd gen i7 ..GHz"
\*   "Octa core"
ProcessorTexts ==
    { <<"I", "n", "t", "e", "l", " ", "C", "o", "r", "e", " ", "i", "5", " ",
        "1", "1", "t", "h", " ", "G", "e", "n", " ", "2", ".", "4", " ", "G",
        "H", "z", " ", "4", " ", "c", "o", "r", "e", "s">>,
      <<"A", "M", "D", " ", "R", "y", "z", "e", "n", " ", "5", " ", "3", ".",
        "3", "G", "H", "z">>,
      <<"I", "n", "t", "e", "l", " ", "1", ".", "2", ".", "3", " ", "G", "H",
        "z">>,
      <<"A", "p", "p", "l", "e", " ", "M", "1", " ", "8", " ", "c", "o", "r",
        "e", "s">>,
      <<"C", "e", "l", "e", "r", "o", "n", " ", "8", "0", "0", " ", "M", "H",
        "z">>,
      <<"2", "n", "d", " ", "g", "e", "n", " ", "i", "7", " ", ".", ".", "G",
        "H", "z">>,
      <<"O", "c", "t", "a", " ", "c", "o", "r", "e">> }

\* The mappings the extractors are called with.  Those that
\* _extract_technical_specs hands on have no empty value (a row is kept only
\* if label and value are non-empty): no table, a row under one of the
\* candidate keys, and two rows.  The last two are mappings of a direct call
\* that hold a candidate key with an empty value before a later candidate.
SpecMappings ==
    { << >> }
    \cup { k :> t : k \in { "ram", "memory" }, t \in RamTexts }
    \cup { k :> t : k \in { "processor", "cpu_model" }, t \in ProcessorTexts }
    \cup { ("processor" :> p) @@ ("ram" :> r) : p \in ProcessorTexts, r \in RamTexts }
    \cup { k :> t : k \in { "storage", "hard_disk" }, t \in StorageTexts }
    \cup { k :> t : k \in { "ports", "connectivity_type" }, t \in PortTexts }
    \cup { ("ports" :> a) @@ ("hardware_interface" :> b) : a, b \in OnePortTexts }
    \cup { k :> t : k \in { "dimensions", "item_dimensions" }, t \in DimensionTexts }
    \cup { k :> t : k \in { "weight", "item_weight" }, t \in WeightTexts }
    \cup { ("product_dimensions" :> d) @@ ("weight" :> w) :
             d \in DimensionTexts, w \in WeightTexts }
    \cup { ("ram" :> << >>) @@ ("memory" :> r) : r \in RamTexts }
    \cup { ("hard_drive" :> << >>) @@ ("storage" :> t) : t \in StorageTexts }

SpecsInputs == { [kind |-> "specs", specs |-> m] : m \in SpecMappings }


\* ------------------------------------------------ _create_laptop_specs
\* LaptopSpecs(): every leaf at its default (of the sub-records, those of the
\* extractors above).
DefaultSpecs ==
    [ processor |-> [brand |-> << >>, generation |-> << >>, model |-> "",
                     speed |-> None, cores |-> << >>],
      ram |-> [size |-> << >>, type |-> << >>, speed |-> << >>],
      storage |-> StorageDefault,
      os |-> << >>,
      ports |-> << >>,
      dimensions |-> [length |-> 0, width |-> 0, height |-> 0, weight |-> 0],
      additional_features |-> << >> ]

\* self._extract_additional_features(tech_specs): neither AmazonSpider nor
\* BaseSpider defines a method of this name, so the attribute lookup raises.
extract_additional_features == Raise("AttributeError")

\* The outcomes of the calls that are the arguments of LaptopSpecs(...).
SubRecords(tech_specs) ==
    [ processor |-> extract_processor_info(tech_specs),
      ram |-> extract_ram_info(tech_specs),
      storage |-> extract_storage_info(tech_specs),
      os |-> Ok(IF "operating_system" \in DOMAIN tech_specs
                THEN tech_specs["operating_system"] ELSE << >>),
      ports |-> extract_ports_info(tech_specs),
      dimensions |-> extract_dimensions_info(tech_specs),
      additional_features |-> extract_additional_features ]

\* One try block around the whole LaptopSpecs(...) expression: an exception
\* of any argument leaves LaptopSpecs().
LaptopSpecsOf(parts) ==
    IF \E n \in DOMAIN parts : parts[n].exc # "none" THEN DefaultSpecs
    ELSE [n \in DOMAIN parts |-> parts[n].value[1]]

create_laptop_specs(tech_specs) == LaptopSpecsOf(SubRecords(tech_specs))

\* ------------------------------------------------------- merge_specs
\* A value of a specification mapping: a leaf (a string) or a nested
\* mapping from keys to values.
Leaf(s) == [dict |-> FALSE, leaf |-> s, items |-> << >>]
Dict(m) == [dict |-> TRUE, leaf |-> "", items |-> m]

\* Last write wins: the new value is written whatever it is.
Truthy_Always(value) == TRUE

\* `elif value:` for a leaf: the string is not empty.
Truthy(value) == value.leaf # ""

\* merged = old_specs.copy(), then for every item of new_specs: a nested
\* mapping is merged into the old value under the key (a copy of it is; an
\* old value that is no mapping has no copy(): AttributeError) or put in when
\* the key is new; a leaf is written when it is true.  The result is merged.
RECURSIVE merge_specs(_, _)
merge_specs(old_specs, new_specs) ==
    LET nested == [k \in { key \in DOMAIN new_specs \cap DOMAIN old_specs : new_specs[key].dict } |->
                     IF old_specs[k].dict
                     THEN merge_specs(old_specs[k].items, new_specs[k].items)
                     ELSE Raise("AttributeError")]
        written == { key \in DOMAIN new_specs :
                       new_specs[key].dict \/ Truthy(new_specs[key]) }
    IN  IF \E k \in DOMAIN nested : nested[k].exc # "none" THEN Raise("AttributeError")
        ELSE Ok([k \in DOMAIN old_specs \cup written |->
                   IF k \in DOMAIN nested THEN Dict(nested[k].value[1])
                   ELSE IF k \in written THEN new_specs[k]
                   ELSE old_specs[k]])

\* Specification mappings: the memory sub-record with its leaves size and
\* type, and the leaf os; a key may be missing, a leaf may be empty.
RamRecords ==
    { [k \in keys |-> Leaf(IF k = "size" THEN size ELSE type)] :
        keys \in { {}, { "size" }, { "size", "type" } },
        size \in { "", "16GB" }, type \in { "", "DDR4", "DDR5" } }

SpecRecords ==
    { rec \in [ { "ram", "os" } -> { Dict(r) : r \in RamRecords }
                                    \cup { Leaf(s) : s \in { "", "Windows 11" } } ] :
        rec["ram"].dict /\ ~rec["os"].dict }
    \cup { "ram" :> Dict(r) : r \in RamRecords }
    \cup { "os" :> Leaf(s) : s \in { "", "Windows 11" } }
    \cup { << >> }

MergeInputs ==
    { [kind |-> "merge", old_specs |-> old, new_specs |-> new] :
        old \in SpecRecords, new \in SpecRecords }

\* ------------------------------------------------ extract_product_data
\* text.split()[0]: the first run of non-blank characters; IndexError when
\* the text has none.
FirstToken(text) ==
    LET s == LStrip(text)
        end == CHOOSE j \in 1..(Len(s) + 1) :
                   /\ \A i \in 1..(j - 1) : s[i] \notin Whitespace
                   /\ j <= Len(s) => s[j] \in Whitespace
    IN  IF s = << >> THEN Raise("IndexError") ELSE Ok(SubSeq(s, 1, end - 1))

\* ' '.join(text.strip().split()) of _clean_text
RECURSIVE clean_text(_)
clean_text(text) ==
    LET s == Strip(text)
    IN  IF s = << >> THEN << >>
        ELSE LET word == FirstToken(s).value[1]
                 rest == clean_text(SubSeq(s, Len(word) + 1, Len(s)))
             IN  IF rest = << >> THEN word ELSE word \o <<" ">> \o rest

\* The text of the first element that exists among the elements the selectors
\* of a list find (None: the selector finds nothing); None when none exists.
FirstElement(elems) ==
    LET found == { i \in 1..Len(elems) : elems[i] # None }
    IN  IF found = {} THEN None ELSE elems[MinOf(found)]

\* _extract_title
extract_title(page) ==
    IF page.title = None THEN << >> ELSE clean_text(page.title[1])

\* _extract_current_price: 0.0 when no selector finds an element.
extract_current_price(page) ==
    IF FirstElement(page.prices) = None THEN 0
    ELSE extract_price(FirstElement(page.prices)).value[1]

\* _extract_original_price: None when no selector finds an element.
extract_original_price(page) ==
    IF FirstElement(page.strikes) = None THEN None
    ELSE Some(extract_price(FirstElement(page.strikes)).value[1])

\* int(s) of a string of digits: ValueError on the empty string.
IntParse(s) == IF s = << >> THEN Raise("ValueError") ELSE Ok(IntOf(s))

\* _extract_ratings: <<ratings_count, average_rating>>.  The count is read
\* first; split()[0] of the first rating element that exists is parsed (a
\* token is never empty, so that element ends the loop); ValueError and
\* AttributeError are caught, IndexError is not.
extract_ratings(page) ==
    LET count == IF page.count = None THEN Ok(0)
                 ELSE IntParse(KeepDigits(page.count[1]))
        elem == FirstElement(page.ratings)
        token == IF elem = None THEN Ok(<< >>) ELSE FirstToken(elem[1])
        rating == IF elem = None THEN Ok(0)
                  ELSE IF token.exc # "none" THEN token
                  ELSE FloatOf(token.value[1], 1)
        body == IF count.exc # "none" THEN count
                ELSE IF rating.exc # "none" THEN rating
                ELSE Ok(<<count.value[1], rating.value[1]>>)
    IN  Catch(body, { "ValueError", "AttributeError" }, Ok(<<0, 0>>))

\* extract_product_data on a fetched page: None, or Some(laptop).  The record
\* is the Laptop of the persistence model with its title and ratings_count.
extract_product_data(page) ==
    LET title == extract_title(page)
        current_price == extract_current_price(page)
        original_price == OriginalOr(extract_original_price(page), current_price)
        ratings == extract_ratings(page)
    IN  IF title = << >> THEN None
        ELSE IF ratings.exc # "none" THEN None
        ELSE IF LaptopRejected(page.asin, current_price, original_price,
                               ratings.value[1][2]) THEN None
        ELSE Some([title |-> title, ratings_count |-> ratings.value[1][1]]
                  @@ Laptop(page.asin, current_price, original_price,
                            ratings.value[1][2],
                            create_laptop_specs(page.specs), now))


\* Detail pages as the selectors see them.  title, count: the text of the
\* element, None when it is absent; prices, strikes, ratings: per selector of
\* the list, the text of the element it finds.  Texts:
\*   title " ", "HP 15"; price "45,000", ""; strike-through price "50,000";
\*   count "1,234 ratings", "No reviews"; rating "4.5 out of 5", "",
\*   "five stars", "7.5 of 10"
DetailPages ==
    { [ kind |-> "page", asin |-> <<"A">>, title |-> title, prices |-> prices,
        strikes |-> strikes, count |-> count, ratings |-> ratings, specs |-> specs ] :
        title \in { None, Some(<<" ">>), Some(<<"H", "P", " ", "1", "5">>) },
        prices \in { <<None, None, None, None, None>>,
                     <<Some(<<"4", "5", ",", "0", "0", "0">>), None, None, None, None>>,
                     <<None, Some(<< >>), Some(<<"4", "5", ",", "0", "0", "0">>), None, None>> },
        strikes \in { <<None, None, None, None>>,
                      <<None, Some(<<"5", "0", ",", "0", "0", "0">>), None, None>> },
        count \in { None,
                    Some(<<"1", ",", "2", "3", "4", " ", "r", "a", "t", "i",
                           "n", "g", "s">>),
                    Some(<<"N", "o", " ", "r", "e", "v", "i", "e", "w", "s">>) },
        ratings \in { <<None, None, None>>,
                      <<Some(<<"4", ".", "5", " ", "o", "u", "t", " ", "o",
                              "f", " ", "5">>), None, None>>,
                      <<None, Some(<< >>), None>>,
                      <<None, None, Some(<<"f", "i", "v", "e", " ", "s", "t", "a", "r",
                              "s">>)>>,
                      <<Some(<<"7", ".", "5", " ", "o", "f", " ", "1", "0">>), None, None>> },
        specs \in { << >>,
                    "ram" :> <<"1", "6", "G", "B", " ", "L", "P", "D", "D",
                              "R", "4", "X">>,
                    ("processor" :> <<"I", "n", "t", "e", "l", " ", "1", ".", "2",
                              ".", "3", " ", "G", "H", "z">>)
                    @@ ("ram" :> <<"1", "6", "G", "B", " ", "D", "D", "R", "5">>) } }

CallInputs == PriceInputs \cup SpecsInputs \cup DetailPages \cup MergeInputs

\* ---------------------------------------------------------------- state
\* A function of the extraction is about to be called on an input.
ExtractInit ==
    /\ Constructed
    /\ arg \in CallInputs

\* parse_price(text)
CallParsePrice ==
    /\ fn = "none"
    /\ arg.kind = "price"
    /\ fn' = "parse_price"
    /\ ret' = parse_price(arg.text)
    /\ UNCHANGED arg
    /\ UNCHANGED <<dbVars, fetchVars, crawlVars, limiterVars, schedVars, swept>>

\* DataCleaner.clean_price(text)
CallCleanPrice ==
    /\ fn = "none"
    /\ arg.kind = "price"
    /\ fn' = "clean_price"
    /\ ret' = clean_price(arg.text)
    /\ UNCHANGED arg
    /\ UNCHANGED <<dbVars, fetchVars, crawlVars, limiterVars, schedVars, swept>>

\* BaseSpider._extract_price(text)
CallExtractPrice ==
    /\ fn = "none"
    /\ arg.kind = "price"
    /\ fn' = "extract_price"
    /\ ret' = extract_price(arg.text)
    /\ UNCHANGED arg
    /\ UNCHANGED <<dbVars, fetchVars, crawlVars, limiterVars, schedVars, swept>>

\* _extract_ram_info(specs)
CallExtractRamInfo ==
    /\ fn = "none"
    /\ arg.kind = "specs"
    /\ fn' = "extract_ram_info"
    /\ ret' = extract_ram_info(arg.specs)
    /\ UNCHANGED arg
    /\ UNCHANGED <<dbVars, fetchVars, crawlVars, limiterVars, schedVars, swept>>

\* _extract_processor_info(specs)
CallExtractProcessorInfo ==
    /\ fn = "none"
    /\ arg.kind = "specs"
    /\ fn' = "extract_processor_info"
    /\ ret' = extract_processor_info(arg.specs)
    /\ UNCHANGED arg
    /\ UNCHANGED <<dbVars, fetchVars, crawlVars, limiterVars, schedVars, swept>>

\* extract_product_data(url) on the page fetched for url; every exception is
\* caught inside, so the call returns.
CallExtractProductData ==
    /\ fn = "none"
    /\ arg.kind = "page"
    /\ fn' = "extract_product_data"
    /\ ret' = Ok(extract_product_data(arg))
    /\ UNCHANGED arg
    /\ UNCHANGED <<dbVars, fetchVars, crawlVars, limiterVars, schedVars, swept>>

\* _extract_ports_info(specs)
CallExtractPortsInfo ==
    /\ fn = "none"
    /\ arg.kind = "specs"
    /\ fn' = "extract_ports_info"
    /\ ret' = extract_ports_info(arg.specs)
    /\ UNCHANGED arg
    /\ UNCHANGED <<dbVars, fetchVars, crawlVars, limiterVars, schedVars, swept>>

\* _extract_dimensions_info(specs)
CallExtractDimensionsInfo ==
    /\ fn = "none"
    /\ arg.kind = "specs"
    /\ fn' = "extract_dimensions_info"
    /\ ret' = extract_dimensions_info(arg.specs)
    /\ UNCHANGED arg
    /\ UNCHANGED <<dbVars, fetchVars, crawlVars, limiterVars, schedVars, swept>>

\* _extract_current_price(soup) on the page
CallExtractCurrentPrice ==
    /\ fn = "none"
    /\ arg.kind = "page"
    /\ fn' = "extract_current_price"
    /\ ret' = Ok(extract_current_price(arg))
    /\ UNCHANGED arg
    /\ UNCHANGED <<dbVars, fetchVars, crawlVars, limiterVars, schedVars, swept>>

\* _extract_storage_info(specs)
CallExtractStorageInfo ==
    /\ fn = "none"
    /\ arg.kind = "specs"
    /\ fn' = "extract_storage_info"
    /\ ret' = extract_storage_info(arg.specs)
    /\ UNCHANGED arg
    /\ UNCHANGED <<dbVars, fetchVars, crawlVars, limiterVars, schedVars, swept>>

\* _create_laptop_specs(tech_specs); every exception is caught inside.
CallCreateLaptopSpecs ==
    /\ fn = "none"
    /\ arg.kind = "specs"
    /\ fn' = "create_laptop_specs"
    /\ ret' = Ok(create_laptop_specs(arg.specs))
    /\ UNCHANGED arg
    /\ UNCHANGED <<dbVars, fetchVars, crawlVars, limiterVars, schedVars, swept>>

\* merge_specs(old_specs, new_specs); the assignments of the function go to
\* its own copy, the two arguments stay as they are.
CallMergeSpecs ==
    /\ fn = "none"
    /\ arg.kind = "merge"
    /\ fn' = "merge_specs"
    /\ ret' = merge_specs(arg.old_specs, arg.new_specs)
    /\ UNCHANGED arg
    /\ UNCHANGED <<dbVars, fetchVars, crawlVars, limiterVars, schedVars, swept>>

ExtractNext ==
    \/ CallParsePrice
    \/ CallCleanPrice
    \/ CallExtractPrice
    \/ CallExtractRamInfo
    \/ CallExtractProcessorInfo
    \/ CallExtractStorageInfo
    \/ CallExtractPortsInfo
    \/ CallExtractDimensionsInfo
    \/ CallCreateLaptopSpecs
    \/ CallExtractCurrentPrice
    \/ CallExtractProductData
    \/ CallMergeSpecs

ExtractSpec == ExtractInit /\ [][ExtractNext]_vars


\* ----------------------------------------------------------- properties
\* The page has a title: the element exists and its text is not blank.
HasTitle(page) == page.title # None /\ Strip(page.title[1]) # << >>

\* The rating read from the page is one the validator of Laptop rejects.
RatingOutOfRange(page) ==
    /\ extract_ratings(page).exc = "none"
    /\ RatingRejected(extract_ratings(page).value[1][2])

\* C15: extract_product_data returns no record when the title is absent, and
\* a record whenever the title is present (and no value is one the Laptop
\* validators reject): without a price element current_price is 0.0, without
\* a strike-through element original_price is current_price, without ratings
\* elements ratings_count is 0 and average_rating 0.0, without a spec table
\* the Specification is default-filled.
C15_TitleDecides ==
    fn = "extract_product_data" =>
        /\ ~HasTitle(arg) => ret = Ok(None)
        /\ (HasTitle(arg) /\ ~RatingOutOfRange(arg)) =>
             /\ ret.exc = "none"
             /\ ret.value[1] # None
             /\ LET l == ret.value[1][1] IN
                /\ FirstElement(arg.prices) = None => l.current_price = 0
                /\ FirstElement(arg.strikes) = None => l.original_price = l.current_price
                /\ arg.count = None => l.ratings_count = 0
                /\ FirstElement(arg.ratings) = None => l.average_rating = 0
                /\ arg.specs = << >> => l.specifications = DefaultSpecs

\* C18: every field extractor returns its fully shaped record and never
\* raises, whatever the spec mapping holds.
C18_ExtractorsTotal ==
    /\ fn = "extract_processor_info" =>
         /\ ret.exc = "none"
         /\ DOMAIN ret.value[1] = { "brand", "model", "generation", "speed", "cores" }
    /\ fn = "extract_ram_info" =>
         /\ ret.exc = "none"
         /\ DOMAIN ret.value[1] = { "size", "type", "speed" }

\* A price text that is absent, empty, without digits or with several
\* decimal points.
MalformedPrice(text) ==
    \/ text = None
    \/ KeepDigits(text[1]) = << >>
    \/ Cardinality(Positions(text[1], ".")) > 1

\* C19: parse_price, clean_price and _extract_price never raise, and return
\* 0.0 for every malformed price text.
C19_MalformedPriceIsZero ==
    fn \in { "parse_price", "clean_price", "extract_price" } =>
        /\ ret.exc = "none"
        /\ MalformedPrice(arg.text) => ret = Ok(0)

\* The type tokens the text contains that no other contained token contains.
MostSpecificTypes(ram_info) ==
    LET held == { i \in 1..Len(ram_types) : Contains(ram_info, ram_types[i]) }
    IN  { ram_types[i] : i \in { h \in held :
            \A g \in held : g # h => ~Contains(ram_types[g], ram_types[h]) } }

\* C20: the type the memory extractor reports is the most specific type token
\* of the text ("16GB LPDDR4X" gives "LPDDR4X"), and empty when the text
\* holds none.
C20_MostSpecificRamType ==
    fn = "extract_ram_info" =>
        LET ram_info == FirstPresent(arg.specs, ram_keys)
            type == ret.value[1].type
        IN  IF MostSpecificTypes(ram_info) = {} THEN type = << >>
            ELSE type \in MostSpecificTypes(ram_info)

\* Two entries of a list that differ only in letter case.
CaseTwins(list) ==
    { pair \in (1..Len(list)) \X (1..Len(list)) :
        /\ pair[1] < pair[2]
        /\ LowerText(list[pair[1]]) = LowerText(list[pair[2]]) }

\* C21: the ports extractor returns a sorted list that holds each matched
\* port token once after case normalization: no two entries differ only in
\* letter case ("USB 3.0" and "usb 3.0" give a single entry).
C21_PortsOncePerToken ==
    fn = "extract_ports_info" =>
        /\ ret.exc = "none"
        /\ LET list == ret.value[1] IN
           /\ \A i, j \in 1..Len(list) : i < j => TextLess(list[i], list[j])
           /\ CaseTwins(list) = {}

\* The position after a number and its unit at position i, 0 when the text
\* has none there.
UnitEnd(text, i) ==
    LET e == NumberEnd(text, i)
        units == { w \in { <<"c", "m">>, <<"m", "m">> } : WordAt(LowerText(text), e, w) }
    IN  IF e = 0 \/ units = {} THEN 0 ELSE e + 2

\* The factor to hundredths of a centimeter of the unit that ends before
\* position e.
UnitFactor(text, e) == IF Lower(text[e - 2]) = "m" THEN 10 ELSE 100

\* The text is a triple whose numbers each carry their own unit:
\* number unit x number unit x number unit.
OwnUnitTriple(text) ==
    LET e1 == UnitEnd(text, 1)
        s2 == SeparatorEnd(text, e1, { "x" })
        e2 == UnitEnd(text, s2)
        s3 == SeparatorEnd(text, e2, { "x" })
        e3 == UnitEnd(text, s3)
    IN  IF e1 = 0 \/ s2 = 0 \/ e2 = 0 \/ s3 = 0 \/ e3 # Len(text) + 1 THEN << >>
        ELSE << RoundDiv(Scaled(SubSeq(text, 1, e1 - 3), 2) * UnitFactor(text, e1), 100),
                RoundDiv(Scaled(SubSeq(text, s2, e2 - 3), 2) * UnitFactor(text, e2), 100),
                RoundDiv(Scaled(SubSeq(text, s3, e3 - 3), 2) * UnitFactor(text, e3), 100) >>

\* C22: the dimensions extractor converts a triple whose numbers each carry
\* their own unit to centimeters: "350mm x 240mm x 18mm" gives length 35.0,
\* width 24.0 and height 1.8.
C22_OwnUnitTripleConverted ==
    fn = "extract_dimensions_info" =>
        LET own == OwnUnitTriple(FirstPresent(arg.specs, dimension_keys))
        IN  own # << >> =>
              /\ ret.exc = "none"
              /\ ret.value[1].length = own[1]
              /\ ret.value[1].width = own[2]
              /\ ret.value[1].height = own[3]

\* C23: the price normalizer of the spiders keeps the decimal point:
\* BaseSpider._extract_price returns the value parse_price returns (all but
\* digits and the decimal point stripped) for every price text; "1,299.50"
\* gives 1299.5.
C23_PriceKeepsDecimalPoint ==
    fn = "extract_price" => ret = parse_price(arg.text)

\* The text of the first element, in selector order, that holds text other
\* than blanks; None when there is none.
FirstWithText(elems) ==
    LET found == { i \in 1..Len(elems) : elems[i] # None /\ Strip(elems[i][1]) # << >> }
    IN  IF found = {} THEN None ELSE elems[MinOf(found)]

\* C24: current-price extraction uses the first selector, in the order of
\* the list, that yields text: an earlier selector whose element has empty
\* text is passed over and the price of the later element is returned.
C24_FirstSelectorWithText ==
    fn = "extract_current_price" =>
        ret = IF FirstWithText(arg.prices) = None THEN Ok(0)
              ELSE extract_price(FirstWithText(arg.prices))

\* The occurrences of storage entries in the text in scanning order: type by
\* type in table order, and within a type from left to right.
RECURSIVE Occurrences(_, _)
Occurrences(storage_info, k) ==
    IF k > Len(storage_types) THEN << >>
    ELSE LET matches == FindList(storage_info, StoragePattern(storage_types[k]), 1)
         IN  [i \in 1..Len(matches) |-> <<storage_types[k], Capacity(matches[i])>>]
             \o Occurrences(storage_info, k + 1)

\* C26: in the storage extractor the first occurrence found, scanning the
\* types in the order SSD, HDD, eMMC, NVMe, is the primary and the second
\* occurrence found is the secondary; later occurrences change neither (a
\* text with an SSD, an HDD and an eMMC entry gives secondary HDD).
C26_SecondOccurrenceIsSecondary ==
    fn = "extract_storage_info" =>
        LET found == Occurrences(FirstPresent(arg.specs, storage_keys), 1)
            storage == ret.value[1]
        IN  /\ Len(found) >= 1 =>
                 /\ storage.primary_type = found[1][1]
                 /\ storage.primary_capacity = found[1][2]
            /\ Len(found) >= 2 =>
                 /\ storage.secondary_type = found[2][1]
                 /\ storage.secondary_capacity = found[2][2]

\* C25: when a field extractor fails inside _create_laptop_specs, only the
\* sub-record of that extractor is at its defaults; the sub-records of the
\* other extractors hold what these extracted, and the Specification
\* returned has its full shape.
C25_OnlyFailedSubRecordDefaults ==
    fn = "create_laptop_specs" =>
        LET parts == SubRecords(arg.specs)
            extractors == DOMAIN parts \ { "additional_features" }
        IN  (\E n \in extractors : parts[n].exc # "none") =>
              /\ ret.exc = "none"
              /\ DOMAIN ret.value[1] = DOMAIN DefaultSpecs
              /\ \A n \in extractors :
                   ret.value[1][n] = IF parts[n].exc # "none" THEN DefaultSpecs[n]
                                     ELSE parts[n].value[1]

\* The rows of a mapping whose value is not empty.
NonEmptyRows(specs) ==
    [k \in { key \in DOMAIN specs : specs[key] # << >> } |-> specs[k]]

PassInProgress == run_pc = "pass"

\* C28: a crawl pass that ends, with or without a pass-level error, leaves
\* the scheduler task in a sleep of the loop (or cancelled by stop), never
\* ended by the error; while the scheduler is running every such sleep is
\* followed by another crawl pass; and a pass is started only by the loop
\* test, when no pass is in progress.
C28_FailedPassIsFollowedByPass ==
    /\ [][(PassInProgress /\ ~PassInProgress') =>
            run_pc' \in { "interval", "backoff", "cancelled" }]_vars
    /\ [][(~PassInProgress /\ PassInProgress') => (run_pc = "test" /\ running)]_vars
    /\ (run_pc \in { "interval", "backoff" }) ~> (PassInProgress \/ ~running)

\* A pass has failed and a later pass is in progress.
C28_Witness ==
    /\ PassInProgress
    /\ failures >= 1
    /\ passes >= 2
    /\ running

\* out follows the rule that prefers non-empty values, at every level: a key
\* present only in old keeps its value; a non-empty leaf of new is in out;
\* under an empty leaf of new, out holds the value of old; a nested mapping
\* of new is in out, merged by the same rule with the one of old.
RECURSIVE PrefersNonEmpty(_, _, _)
PrefersNonEmpty(old, new, out) ==
    /\ \A k \in DOMAIN old \ DOMAIN new : k \in DOMAIN out /\ out[k] = old[k]
    /\ \A k \in DOMAIN new :
         IF new[k].dict
         THEN /\ k \in DOMAIN out
              /\ out[k].dict
              /\ PrefersNonEmpty(IF k \in DOMAIN old THEN old[k].items ELSE << >>,
                                 new[k].items, out[k].items)
         ELSE IF new[k].leaf # "" THEN k \in DOMAIN out /\ out[k] = new[k]
         ELSE k \in DOMAIN old => (k \in DOMAIN out /\ out[k] = old[k])

\* C29: merge_specs(old, new) follows the rule that prefers non-empty values
\* recursively: at every leaf path the result holds the value of new when it
\* is non-empty and the value of old otherwise, keys present only in old are
\* kept, neither argument is modified, and merge_specs(x, x) = x.
C29_MergePrefersNonEmpty ==
    /\ [](fn = "merge_specs" =>
            /\ ret.exc = "none"
            /\ PrefersNonEmpty(arg.old_specs, arg.new_specs, ret.value[1])
            /\ arg.old_specs = arg.new_specs => ret.value[1] = arg.old_specs)
    /\ [][fn' = "merge_specs" => arg' = arg]_vars

\* A merge in which an empty leaf of new stood against a non-empty leaf of
\* old, a non-empty leaf of new replaced another one, and old alone had the
\* key os.
C29_Witness ==
    /\ fn = "merge_specs"
    /\ "os" \in DOMAIN arg.old_specs /\ "os" \notin DOMAIN arg.new_specs
    /\ "ram" \in DOMAIN arg.old_specs /\ "ram" \in DOMAIN arg.new_specs
    /\ arg.old_specs["ram"].items = [size |-> Leaf("16GB"), type |-> Leaf("DDR4")]
    /\ arg.new_specs["ram"].items = [size |-> Leaf(""), type |-> Leaf("DDR5")]
    /\ ret = Ok([os |-> arg.old_specs["os"],
                 ram |-> Dict([size |-> Leaf("16GB"), type |-> Leaf("DDR5")])])

\* ===================================================================
\* Properties of the persistence service (specification Spec)
\* ===================================================================

\* The prices of a price_history, in stored order.
PricesOf(h) == [i \in 1..Len(h) |-> h[i].price]

\* A price sequence with one more observation, equal neighbours collapsed.
CollapseAppend(prices, x) ==
    IF prices = << >> \/ prices[Len(prices)] # x THEN Append(prices, x) ELSE prices

\* The stored history of product p, empty when p is not stored.
HistoryOf(docs, p) == IF p \in DOMAIN docs THEN docs[p].price_history ELSE << >>

\* C1: the stored price_history is the sequence of persisted prices with
\* consecutive equal prices collapsed, in observation order.  Stated step by
\* step: an acknowledged insert_laptop of price x leaves the earlier history
\* with x appended when x differs from its last entry (or it is empty), and no
\* other operation changes a history.
C1_PriceHistoryCollapsed ==
    [][ /\ InsertLaptopOk =>
            LET p == laptop[1].product_id IN
            PricesOf(store'[p].price_history)
                = CollapseAppend(PricesOf(HistoryOf(store, p)), laptop[1].current_price)
        /\ ~InsertLaptopOk =>
            \A p \in DOMAIN store :
                p \in DOMAIN store' /\ store'[p].price_history = store[p].price_history
      ]_vars

\* C2: first_seen is written when insert_laptop creates the document (the
\* clock reading of that call) and no later insert_laptop or mark_unavailable
\* changes it.
C2_FirstSeenImmutable ==
    [][ /\ \A p \in DOMAIN store :
            p \in DOMAIN store' /\ store'[p].first_seen = store[p].first_seen
        /\ \A p \in DOMAIN store' \ DOMAIN store : store'[p].first_seen = now
      ]_vars

\* C2 witness: one document re-inserted and another marked unavailable, both
\* after the clock reading at which they were created.
C2_Witness ==
    \E p, q \in DOMAIN store :
        /\ p # q
        /\ store[p].in_stock /\ store[p].first_seen < store[p].last_updated
        /\ ~store[q].in_stock /\ store[q].first_seen < store[q].last_updated

\* C3: every stored document has first_seen <= last_updated.
C3_FirstSeenBeforeLastUpdated ==
    \A p \in DOMAIN store : store[p].first_seen <= store[p].last_updated

\* C4: an insert_laptop over a stored document keeps every non-empty
\* specification leaf that the new extraction left empty.
C4_KeepsNonEmptyLeaf ==
    [][ InsertLaptopOk /\ laptop[1].product_id \in DOMAIN store =>
            LET p   == laptop[1].product_id
                old == store[p].specifications
                new == laptop[1].specifications
                out == store'[p].specifications
            IN
            /\ \A k \in DOMAIN new.ram :
                   (new.ram[k] = "" /\ old.ram[k] # "") => out.ram[k] = old.ram[k]
            /\ (new.os = "" /\ old.os # "") => out.os = old.os
      ]_vars

\* C5: persisting a record again over the stored result of its earlier insert
\* changes no stored field but last_updated and adds no price_history entry.
C5_ReinsertIsNoOp ==
    [][ InsertLaptopOk /\ HoldsRecord(store, laptop[1]) =>
            LET p == laptop[1].product_id IN
            /\ DOMAIN store' = DOMAIN store
            /\ \A q \in DOMAIN store \ {p} : store'[q] = store[q]
            /\ \A f \in DOMAIN store[p] \ {"last_updated"} : store'[p][f] = store[p][f]
            /\ Len(store'[p].price_history) = Len(store[p].price_history)
      ]_vars

\* C5 witness: the object in hand has been persisted over its own stored
\* result, at a later clock reading than the one that created the document.
C5_Witness ==
    /\ laptop # None
    /\ resubmitted
    /\ HoldsRecord(store, laptop[1])
    /\ store[laptop[1].product_id].first_seen < now

\* C6: mark_unavailable(p) on a stored product sets in_stock to false and
\* last_updated to the clock reading, and changes nothing else.
C6_MarkUnavailableFrame ==
    [][ \A p \in DOMAIN store :
            MarkUnavailableOk(p) =>
                /\ DOMAIN store' = DOMAIN store
                /\ store'[p].in_stock = FALSE
                /\ store'[p].last_updated = now
                /\ \A f \in DOMAIN store[p] \ {"in_stock", "last_updated"} :
                       store'[p][f] = store[p][f]
                /\ \A q \in DOMAIN store \ {p} : store'[q] = store[q]
      ]_vars

\* C6 witness: a product marked unavailable later than its last extraction,
\* beside another stored product.
C6_Witness ==
    \E p, q \in DOMAIN store :
        /\ p # q
        /\ ~store[p].in_stock
        /\ store[p].last_updated = now
        /\ store[p].first_seen < now
        /\ store[q].in_stock

\* The conditions C7 names, on the page data handed to the constructor.
Blank(pid) == \A i \in 1..Len(pid) : pid[i] = " "
NamedInvalid(pg) ==
    \/ pg.cur < 0
    \/ (pg.orig # None /\ pg.orig[1] < 0)
    \/ pg.rating < 0 \/ pg.rating > 50
    \/ Blank(pg.pid)

\* A record that satisfies the validated ranges.
ValidRecord(l) ==
    /\ l.current_price >= 0
    /\ l.original_price >= 0
    /\ 0 <= l.average_rating /\ l.average_rating <= 50
    /\ ~Blank(l.product_id)

\* C7: page data with a negative price, a rating outside [0, 5] or a blank
\* product id yields no Laptop object, so nothing of it is coerced or stored:
\* every object in hand and every stored document is within the ranges.
C7_InvalidRejected ==
    /\ (pageIn # None /\ NamedInvalid(pageIn[1])) => laptop = None
    /\ laptop # None => ValidRecord(laptop[1])
    /\ \A p \in DOMAIN store : ValidRecord(store[p])

\* C7 witness: a record with a negative current price was handed to the
\* constructor and no object came out of it.
C7_Witness ==
    /\ pageIn # None
    /\ pageIn[1].cur < 0
    /\ laptop = None

\* C16: get_price_history(product_id) returns the entries of the stored
\* record's price_history, in stored order, and the empty list for an id that
\* is not stored.
C16_PriceHistoryReturned ==
    \A p \in ProductIds :
        get_price_history(store, p)
            = AsList(IF p \in DOMAIN store THEN store[p].price_history ELSE << >>)

\* C17: no step removes a stored record, except a cleanup_old_records(days)
\* step, and it removes only records that are out of stock and were last
\* updated before its cutoff.
C17_OnlyCleanupRemoves ==
    [][ \A p \in DOMAIN store :
            p \notin DOMAIN store' =>
                \E days \in CleanupDays :
                    /\ store' = DeleteOld(store, now, days)
                    /\ Expired(store[p], now, days) ]_vars

\* C17 witness: cleanup_old_records has run over a record its filter selects,
\* and the collection still holds a record that is out of stock and was last
\* updated before the present reading.
C17_Witness ==
    /\ swept
    /\ \E p \in DOMAIN store : Expired(store[p], now, 0)

\* C30: a product marked unavailable is in stock again when it is next
\* observed: an acknowledged insert_laptop of a freshly extracted record
\* leaves the document of its product in stock, also over a document that
\* mark_unavailable had set out of stock; and a document is out of stock only
\* from a mark_unavailable of its product on, until the next insert_laptop.
C30_InStockAgainWhenObserved ==
    /\ [][ InsertLaptopOk => store'[laptop[1].product_id].in_stock ]_vars
    /\ [][ \A p \in DOMAIN store' :
             ~store'[p].in_stock =>
                 /\ p \in DOMAIN store
                 /\ ~store[p].in_stock \/ MarkUnavailableOk(p) ]_vars

\* C30 witness: the insert_laptop just acknowledged wrote over a document
\* that was marked unavailable, and the document is in stock.
C30_Witness ==
    /\ restocked
    /\ laptop # None
    /\ laptop[1].product_id \in DOMAIN store
    /\ store[laptop[1].product_id].in_stock

====
